---- MODULE Spec2Model ----
(***************************************************************************)
(* Session state engine of the ARARAT viewer (viewer/viewer_app.py):       *)
(* case / series navigation, the series cache, the ROI lifecycle with its  *)
(* autosave sidecar, and the NORMAL / SERIES_SELECT / CASE_SELECT mode     *)
(* machine driven by on_key and on_click.                                  *)
(*                                                                         *)
(* Conventions                                                             *)
(*  - Python None is the empty tuple <<>> for tuple-valued fields          *)
(*    (candidate_center, center_mm) and the string "None" for meta.        *)
(*  - (sitk_img, np_vol, meta) are always assigned together; the variable  *)
(*    meta holds the identity (series UID) of the decoded volume, and      *)
(*    Geometry(meta) is its origin / spacing / direction / size.           *)
(*  - Lengths are in half millimetres so that 5.0 mm and the 0.5 mm radius *)
(*    step are integers.                                                   *)
(*  - Strings that the code parses or formats (ROI ids, the text buffers)  *)
(*    are tuples of one-character strings.                                 *)
(***************************************************************************)
EXTENDS Integers, Sequences, FiniteSets, TLC

\* ------------------------------------------------------------------ bounds
MaxRois == 2
MaxBuf == 1
MaxNavRois == 1
MaxRadiusSteps == 1

\* ------------------------------------------------------- program constants
max_cache_size == 6
RadiusInit == 10
RadiusStep == 1
RadiusFloor == 1

\* ----------------------------------------------------------- the workspace
\* What dicom_io.list_case_series returns for each case directory.
SeriesOf(case_name) ==
    IF case_name = "A"
    THEN << [series_uid |-> "uA1", orientation |-> "axial",   is_t2 |-> TRUE,  num_slices |-> 2],
            [series_uid |-> "uA2", orientation |-> "coronal", is_t2 |-> TRUE,  num_slices |-> 1] >>
    ELSE << [series_uid |-> "uB1", orientation |-> "sagittal", is_t2 |-> FALSE, num_slices |-> 1] >>

\* The data roots the folder dialog can return. RootOne is the SAMPLES folder of
\* cases A and B, CaseDirA the directory of its case A opened on its own,
\* RootTwo a second SAMPLES folder whose only patient directory is named A as
\* well, RootMany a SAMPLES folder whose case C has seven series, and NoDicom a
\* folder without DICOM data.
RootOne == "R1"
CaseDirA == "R1/A"
RootTwo == "R2"
RootMany == "R3"
NoDicom == "empty"
Cancelled == ""

\* Three more folders. RootMixed holds a decodable series of its own and a child
\* directory A that holds series; RootNested holds a decodable series of its own
\* and a SAMPLES subdirectory with the case B; RootFresh is a SAMPLES folder whose
\* only case F has a single axial T2 series.
RootMixed == "R4/M"
RootNested == "R5/N"
RootFresh == "R6"
FreshSeries ==
    << [series_uid |-> "uF1", orientation |-> "axial", is_t2 |-> TRUE, num_slices |-> 4] >>

\* The seven series of case C: non-T2 axial series of one slice each.
ManyUids == <<"uC1", "uC2", "uC3", "uC4", "uC5", "uC6", "uC7">>
ManySeries ==
    [n \in 1..7 |-> [series_uid |-> ManyUids[n], orientation |-> "axial",
                     is_t2 |-> FALSE, num_slices |-> 1]]

\* What dicom_io.list_case_series returns for the directory of a case under a
\* data root.
SeriesIn(root, case_name) ==
    IF root = RootTwo
    THEN IF case_name = "A"
         THEN << [series_uid |-> "uX1", orientation |-> "axial", is_t2 |-> TRUE,
                  num_slices |-> 1] >>
         ELSE <<>>
    ELSE IF root = RootMany
    THEN IF case_name = "C" THEN ManySeries ELSE <<>>
    ELSE IF root \in {RootOne, CaseDirA, RootMixed, RootNested} THEN SeriesOf(case_name)
    ELSE IF root = RootFresh
    THEN IF case_name = "F" THEN FreshSeries ELSE <<>>
    ELSE <<>>

\* The patient directories with DICOM series that discover_workspace finds under
\* a root, sorted, and whether the root is a SAMPLES folder.
CasesIn(root) ==
    IF root = RootOne THEN <<"A", "B">>
    ELSE IF root = RootTwo THEN <<"A">>
    ELSE IF root = RootMany THEN <<"C">>
    ELSE IF root = RootMixed THEN <<"A">>
    ELSE IF root = RootNested THEN <<"B">>
    ELSE IF root = RootFresh THEN <<"F">>
    ELSE <<>>

\* Whether dicom_io.list_case_series finds a series in the root itself, and
\* os.path.basename of the root.
IsSingleCase(root) == root \in {CaseDirA, RootMixed, RootNested}
BaseName(root) ==
    IF root = CaseDirA THEN "A"
    ELSE IF root = RootMixed THEN "M"
    ELSE IF root = RootNested THEN "N"
    ELSE root

\* The meta dictionary dicom_io.load_dicom_series_by_path returns for a series:
\* origin and spacing in half millimetres, direction row-major, size (x, y, z).
Geometry(uid) ==
    CASE uid = "uA1" ->
            [origin |-> <<0, 0, 0>>, spacing |-> <<1, 1, 1>>,
             direction |-> <<1, 0, 0,  0, 1, 0,  0, 0, 1>>, size |-> <<1, 1, 2>>]
      [] uid = "uA2" ->
            [origin |-> <<0, 0, 1>>, spacing |-> <<2, 2, 1>>,
             direction |-> <<1, 0, 0,  0, 0, 1,  0, -1, 0>>, size |-> <<1, 2, 1>>]
      [] uid = "uB1" ->
            [origin |-> <<1, 0, 0>>, spacing |-> <<1, 2, 2>>,
             direction |-> <<0, 0, 1,  1, 0, 0,  0, 1, 0>>, size |-> <<2, 1, 1>>]
      [] uid = "uX1" ->
            [origin |-> <<0, 0, 0>>, spacing |-> <<2, 2, 2>>,
             direction |-> <<1, 0, 0,  0, 1, 0,  0, 0, 1>>, size |-> <<1, 1, 1>>]
      [] uid = "uF1" ->
            [origin |-> <<0, 0, 0>>, spacing |-> <<1, 1, 1>>,
             direction |-> <<1, 0, 0,  0, 1, 0,  0, 0, 1>>, size |-> <<2, 3, 4>>]
      [] OTHER ->
            [origin |-> <<0, 0, 0>>, spacing |-> <<1, 1, 1>>,
             direction |-> <<1, 0, 0,  0, 1, 0,  0, 0, 1>>, size |-> <<1, 1, 1>>]

\* Left clicks in the axial panel, as (panel, xdata, ydata) in half millimetres: one
\* inside every grid and one beyond the grids' extent.
ClickEvents == {<<"axial", 0, 0>>, <<"axial", 2, 1>>}
FarClick == {<<"axial", 2, 1>>}
Planes == {"axial", "coronal", "sagittal"}

\* "^2" stands for the one character U+00B2 (superscript two): str.isdigit() is
\* True for it and int() raises ValueError on it.
SuperscriptTwo == "^2"

\* Characters a key press can append to a text buffer (event.key.isdigit()).
DigitKeys == {"0", "1", "2", SuperscriptTwo}

\* ------------------------------------------------------------ Python helpers
None == <<>>
NoMeta == "None"

Max2(a, b) == IF a >= b THEN a ELSE b
Min2(a, b) == IF a <= b THEN a ELSE b

\* int(max(0, min(v, sz - 1)))
Clamp(v, sz) == Max2(0, Min2(v, sz - 1))

\* int(round(n / d)) for d > 0: Python rounds halves to the even neighbour.
RoundDiv(n, d) ==
    LET q == n \div d
        r == n % d
    IN  IF 2 * r < d THEN q
        ELSE IF 2 * r > d THEN q + 1
        ELSE IF q % 2 = 0 THEN q ELSE q + 1

DigitChars == <<"0", "1", "2", "3", "4", "5", "6", "7", "8", "9">>
\* What int() accepts.
IsDecimal(c) == \E d \in 1..10 : DigitChars[d] = c
\* c.isdigit()
IsDigit(c) == IsDecimal(c) \/ c = SuperscriptTwo
DigitVal(c) == (CHOOSE d \in 1..10 : DigitChars[d] = c) - 1

\* str(n) for n >= 0
RECURSIVE IntToStr(_)
IntToStr(n) ==
    IF n < 10 THEN <<DigitChars[n + 1]>>
    ELSE IntToStr(n \div 10) \o <<DigitChars[(n % 10) + 1]>>

\* int(s): [ok |-> FALSE] stands for ValueError.
RECURSIVE DigitsValue(_)
DigitsValue(str) ==
    IF str = <<>> THEN 0
    ELSE 10 * DigitsValue(SubSeq(str, 1, Len(str) - 1)) + DigitVal(str[Len(str)])

ParseInt(str) ==
    IF str = <<>> \/ \E p \in 1..Len(str) : ~IsDecimal(str[p])
    THEN [ok |-> FALSE, val |-> 0]
    ELSE [ok |-> TRUE, val |-> DigitsValue(str)]

\* f"L{n}"
FormatId(n) == <<"L">> \o IntToStr(n)

\* int(rois[-1]['id'][1:]) + 1, or len(rois) + 1 when that raises
CounterAfter(roi_list) ==
    LET p == ParseInt(Tail(roi_list[Len(roi_list)].id))
    IN  IF p.ok THEN p.val + 1 ELSE Len(roi_list) + 1

\* ------------------------------------------------------------------ dicom_io
\* voxel_to_mm reading the direction column by column.
voxel_to_mm_column_major(i, j, k, m) ==
    LET vx == i * m.spacing[1]
        vy == j * m.spacing[2]
        vz == k * m.spacing[3]
        d  == m.direction
    IN  << m.origin[1] + d[1] * vx + d[4] * vy + d[7] * vz,
           m.origin[2] + d[2] * vx + d[5] * vy + d[8] * vz,
           m.origin[3] + d[3] * vx + d[6] * vy + d[9] * vz >>

voxel_to_mm(i, j, k, m) ==
    LET vx == i * m.spacing[1]
        vy == j * m.spacing[2]
        vz == k * m.spacing[3]
        d  == m.direction
    IN  << m.origin[1] + d[1] * vx + d[2] * vy + d[3] * vz,
           m.origin[2] + d[4] * vx + d[5] * vy + d[6] * vz,
           m.origin[3] + d[7] * vx + d[8] * vy + d[9] * vz >>

\* mm_to_voxel applying the direction itself instead of its transpose.
mm_to_voxel_untransposed(x, y, z, m) ==
    LET px == x - m.origin[1]
        py == y - m.origin[2]
        pz == z - m.origin[3]
        d  == m.direction
        rx == d[1] * px + d[2] * py + d[3] * pz
        ry == d[4] * px + d[5] * py + d[6] * pz
        rz == d[7] * px + d[8] * py + d[9] * pz
    IN  << RoundDiv(rx, m.spacing[1]), RoundDiv(ry, m.spacing[2]), RoundDiv(rz, m.spacing[3]) >>

mm_to_voxel(x, y, z, m) ==
    LET px == x - m.origin[1]
        py == y - m.origin[2]
        pz == z - m.origin[3]
        d  == m.direction
        rx == d[1] * px + d[4] * py + d[7] * pz
        ry == d[2] * px + d[5] * py + d[8] * pz
        rz == d[3] * px + d[6] * py + d[9] * pz
    IN  << RoundDiv(rx, m.spacing[1]), RoundDiv(ry, m.spacing[2]), RoundDiv(rz, m.spacing[3]) >>

\* ----------------------------------------------------------------- the state
VARIABLES
    cases_list, current_case_idx, is_samples_mode,
    series_list, current_series_idx,
    meta, series_cache, cache_order,
    center_voxel, center_mm, current_slice, active_view, view_state,
    candidate_center, is_locked, radius_mm,
    mode, series_input_str, case_input_str,
    rois, rois_by_patient, lesion_counter,
    last_message,
    sidecar,
    input_root, roi_status,
    last_preds, case_summary,
    probe

vars == << cases_list, current_case_idx, is_samples_mode,
           series_list, current_series_idx,
           meta, series_cache, cache_order,
           center_voxel, center_mm, current_slice, active_view, view_state,
           candidate_center, is_locked, radius_mm,
           mode, series_input_str, case_input_str,
           rois, rois_by_patient, lesion_counter,
           last_message,
           sidecar,
           input_root, roi_status,
           last_preds, case_summary,
           probe >>

\* The variables of the session; probe holds the arguments and the result of
\* one call of a function that is exercised on its own (no session involved).
session_vars == << cases_list, current_case_idx, is_samples_mode,
                   series_list, current_series_idx,
                   meta, series_cache, cache_order,
                   center_voxel, center_mm, current_slice, active_view, view_state,
                   candidate_center, is_locked, radius_mm,
                   mode, series_input_str, case_input_str,
                   rois, rois_by_patient, lesion_counter,
                   last_message,
                   sidecar,
                   input_root, roi_status,
                   last_preds, case_summary >>
NoProbe == [fn |-> "none"]

\* The HUD line is kept as its kind: the texts the handlers write are classified
\* when the session is stored.
WarningTexts == {"AVISO: Trave o centro com clique primeiro!"}
LoadErrorTexts == {"ERRO ao carregar serie"}
InputErrorTexts == {"Entrada invalida (digite apenas numeros)", "Caso invalido",
                    "Indice invalido"}
CancelTexts == {"Selecao de caso cancelada", "Selecao cancelada"}
ReadyTexts == {"Pronto"}
InferErrorTexts == {"INFER ERROR", "INFER ERROR: sem resultados"}
ExportErrorTexts == {"AVISO: Nenhuma ROI para exportar.", "ERRO no export"}
PredictionTexts == {"PRED"}
WorkspaceErrorTexts == {"Pasta invalida."}
MessageKinds == {"warning", "load_error", "input_error", "cancelled", "ready", "info",
                 "infer_error", "export_error", "prediction", "workspace_error"}
MessageKind(text) ==
    IF text \in MessageKinds THEN text  \* left as it was by the handler
    ELSE IF text \in WarningTexts THEN "warning"
    ELSE IF text \in LoadErrorTexts THEN "load_error"
    ELSE IF text \in InputErrorTexts THEN "input_error"
    ELSE IF text \in CancelTexts THEN "cancelled"
    ELSE IF text \in ReadyTexts THEN "ready"
    ELSE IF text \in InferErrorTexts THEN "infer_error"
    ELSE IF text \in ExportErrorTexts THEN "export_error"
    ELSE IF text \in PredictionTexts THEN "prediction"
    ELSE IF text \in WorkspaceErrorTexts THEN "workspace_error"
    ELSE "info"

\* The running session as one record; the handlers below map records to records.
Self ==
    [ cases_list |-> cases_list, current_case_idx |-> current_case_idx,
      is_samples_mode |-> is_samples_mode,
      series_list |-> series_list, current_series_idx |-> current_series_idx,
      meta |-> meta, series_cache |-> series_cache, cache_order |-> cache_order,
      center_voxel |-> center_voxel, center_mm |-> center_mm, current_slice |-> current_slice,
      active_view |-> active_view, view_state |-> view_state,
      candidate_center |-> candidate_center, is_locked |-> is_locked, radius_mm |-> radius_mm,
      mode |-> mode, series_input_str |-> series_input_str, case_input_str |-> case_input_str,
      rois |-> rois, rois_by_patient |-> rois_by_patient, lesion_counter |-> lesion_counter,
      last_message |-> last_message,
      sidecar |-> sidecar,
      input_root |-> input_root, roi_status |-> roi_status,
      last_preds |-> last_preds, case_summary |-> case_summary ]

SessionBecomes(t) ==
    /\ cases_list' = t.cases_list
    /\ current_case_idx' = t.current_case_idx
    /\ is_samples_mode' = t.is_samples_mode
    /\ series_list' = t.series_list
    /\ current_series_idx' = t.current_series_idx
    /\ meta' = t.meta
    /\ series_cache' = t.series_cache
    /\ cache_order' = t.cache_order
    /\ center_voxel' = t.center_voxel
    /\ center_mm' = t.center_mm
    /\ current_slice' = t.current_slice
    /\ active_view' = t.active_view
    /\ view_state' = t.view_state
    /\ candidate_center' = t.candidate_center
    /\ is_locked' = t.is_locked
    /\ radius_mm' = t.radius_mm
    /\ mode' = t.mode
    /\ series_input_str' = t.series_input_str
    /\ case_input_str' = t.case_input_str
    /\ rois' = t.rois
    /\ rois_by_patient' = t.rois_by_patient
    /\ lesion_counter' = t.lesion_counter
    /\ last_message' = MessageKind(t.last_message)
    /\ sidecar' = t.sidecar
    /\ input_root' = t.input_root
    /\ roi_status' = t.roi_status
    /\ last_preds' = t.last_preds
    /\ case_summary' = t.case_summary

Becomes(t) == SessionBecomes(t) /\ probe' = probe


SessionStartsAs(t) ==
    /\ cases_list = t.cases_list
    /\ current_case_idx = t.current_case_idx
    /\ is_samples_mode = t.is_samples_mode
    /\ series_list = t.series_list
    /\ current_series_idx = t.current_series_idx
    /\ meta = t.meta
    /\ series_cache = t.series_cache
    /\ cache_order = t.cache_order
    /\ center_voxel = t.center_voxel
    /\ center_mm = t.center_mm
    /\ current_slice = t.current_slice
    /\ active_view = t.active_view
    /\ view_state = t.view_state
    /\ candidate_center = t.candidate_center
    /\ is_locked = t.is_locked
    /\ radius_mm = t.radius_mm
    /\ mode = t.mode
    /\ series_input_str = t.series_input_str
    /\ case_input_str = t.case_input_str
    /\ rois = t.rois
    /\ rois_by_patient = t.rois_by_patient
    /\ lesion_counter = t.lesion_counter
    /\ last_message = MessageKind(t.last_message)
    /\ sidecar = t.sidecar
    /\ input_root = t.input_root
    /\ roi_status = t.roi_status
    /\ last_preds = t.last_preds
    /\ case_summary = t.case_summary

StartsAs(t) == SessionStartsAs(t) /\ probe = NoProbe


\* ------------------------------------------------------- small map utilities
HasKey(f, k) == k \in DOMAIN f
Put(f, k, v) == [x \in (DOMAIN f) \cup {k} |-> IF x = k THEN v ELSE f[x]]
Drop(f, k) == [x \in (DOMAIN f) \ {k} |-> f[x]]
RemoveFirst(seq, e) ==
    LET p == CHOOSE q \in 1..Len(seq) : seq[q] = e /\ \A r \in 1..(q - 1) : seq[r] # e
    IN  SubSeq(seq, 1, p - 1) \o SubSeq(seq, p + 1, Len(seq))

\* cases_list[current_case_idx] if cases_list else "unknown"
CaseName(s) ==
    IF s.cases_list # <<>> THEN s.cases_list[s.current_case_idx + 1] ELSE "unknown"

\* ---------------------------------------------------------- view transforms
\* view_state of one plane: the display mode, the limits as the number of
\* scroll steps by which they are narrower than the fitted ones (xlim / ylim;
\* None is redrawn to the fit by update_plot), and the zoom factor as its
\* number of steps of 1.1.
FitView == [mode |-> "FULL", scale |-> 0, zoom |-> 0]
FitAll == [p \in Planes |-> FitView]

\* -------------------------------------------------------- center of the MPR
_set_center_voxel(s, i, j, k) ==
    IF s.meta = NoMeta
    THEN [s EXCEPT !.center_voxel = <<i, j, k>>, !.current_slice = k]
    ELSE LET sz == Geometry(s.meta).size
             ci == Clamp(i, sz[1])
             cj == Clamp(j, sz[2])
             ck == Clamp(k, sz[3])
         IN  [s EXCEPT !.center_voxel = <<ci, cj, ck>>,
                       !.current_slice = ck,
                       !.center_mm = voxel_to_mm(ci, cj, ck, Geometry(s.meta))]

\* _move_center_slice that wraps around at the ends of the volume.
_move_center_slice_wraps(s, plane, delta) ==
    IF s.meta = NoMeta THEN s
    ELSE LET sz == Geometry(s.meta).size
             c  == s.center_voxel
         IN  IF plane = "axial"
             THEN _set_center_voxel(s, c[1], c[2], (c[3] + delta) % sz[3])
             ELSE IF plane = "sagittal"
             THEN _set_center_voxel(s, (c[1] + delta) % sz[1], c[2], c[3])
             ELSE IF plane = "coronal"
             THEN _set_center_voxel(s, c[1], (c[2] + delta) % sz[2], c[3])
             ELSE _set_center_voxel(s, c[1], c[2], c[3])

_move_center_slice(s, plane, delta) ==
    IF s.meta = NoMeta THEN s
    ELSE LET sz == Geometry(s.meta).size
             c  == s.center_voxel
         IN  IF plane = "axial"
             THEN _set_center_voxel(s, c[1], c[2], Clamp(c[3] + delta, sz[3]))
             ELSE IF plane = "sagittal"
             THEN _set_center_voxel(s, Clamp(c[1] + delta, sz[1]), c[2], c[3])
             ELSE IF plane = "coronal"
             THEN _set_center_voxel(s, c[1], Clamp(c[2] + delta, sz[2]), c[3])
             ELSE _set_center_voxel(s, c[1], c[2], c[3])

\* max(0, min(v, size - 1)) on each axis, then _set_center_voxel.
ClampedCenter(s, v, size) ==
    _set_center_voxel(s, Clamp(v[1], size[1]), Clamp(v[2], size[2]), Clamp(v[3], size[3]))

\* The state update_plot writes: it re-clamps the center of a loaded volume.
update_plot(s) ==
    IF s.meta = NoMeta THEN s
    ELSE ClampedCenter(s, s.center_voxel, Geometry(s.meta).size)

\* ------------------------------------------------------------ series discovery
\* FirstMaxSlices that prefers the series with the fewest slices.
FirstMinSlices(lst, idxs) ==
    CHOOSE n \in idxs :
        /\ \A o \in idxs : lst[o].num_slices >= lst[n].num_slices
        /\ \A o \in idxs : o < n => lst[o].num_slices > lst[n].num_slices

\* First index (1-based) of idxs whose series has the most slices: Python's max
\* returns the first maximal element.
FirstMaxSlices(lst, idxs) ==
    CHOOSE n \in idxs :
        /\ \A o \in idxs : lst[o].num_slices <= lst[n].num_slices
        /\ \A o \in idxs : o < n => lst[o].num_slices < lst[n].num_slices

T2Quick(lst, orient) ==
    LET cand == {n \in 1..Len(lst) : lst[n].is_t2 /\ lst[n].orientation = orient}
    IN  IF cand = {} THEN -1 ELSE FirstMaxSlices(lst, cand) - 1

\* Lines 514-520: the axial T2 quick reference, else the series with most slices.
DefaultSeries(lst) ==
    IF T2Quick(lst, "axial") # -1 THEN T2Quick(lst, "axial")
    ELSE FirstMaxSlices(lst, 1..Len(lst)) - 1

discover_series(s) ==
    LET lst == SeriesIn(s.input_root, CaseName(s))
    IN  IF lst = <<>> THEN [s EXCEPT !.series_list = <<>>]
        ELSE [s EXCEPT !.series_list = lst,
                       !.current_series_idx = DefaultSeries(lst)]

\* ------------------------------------------------------------- loading a series
\* RebindRois that also writes back the physical center of the rounded voxel.
RebindRoisSnapsCenter(roi_list, m) ==
    [n \in 1..Len(roi_list) |->
        LET v == mm_to_voxel(roi_list[n].center_mm[1], roi_list[n].center_mm[2],
                             roi_list[n].center_mm[3], m)
        IN  [roi_list[n] EXCEPT !.center_voxel = v,
                                !.center_mm = voxel_to_mm(v[1], v[2], v[3], m)]]

\* Lines 631-635: roi['center_voxel'] = mm_to_voxel(roi['center_mm']) for every roi.
RebindRois(roi_list, m) ==
    [n \in 1..Len(roi_list) |->
        [roi_list[n] EXCEPT !.center_voxel =
            mm_to_voxel(roi_list[n].center_mm[1], roi_list[n].center_mm[2],
                        roi_list[n].center_mm[3], m)]]

\* self.rois and rois_by_patient[case] are the same list object once the case is
\* registered, so a mutation of self.rois shows in the map as well.
WithRois(s, new_rois) ==
    [s EXCEPT !.rois = new_rois,
              !.rois_by_patient =
                  IF HasKey(s.rois_by_patient, CaseName(s))
                  THEN Put(s.rois_by_patient, CaseName(s), new_rois)
                  ELSE s.rois_by_patient]

\* Lines 637-655: the center goes to the voxel of the physical center kept from
\* the previous volume, clamped, or to the middle of the volume if there is none.
PlaceCenter(s, m) ==
    IF s.center_mm # None
    THEN ClampedCenter(s, mm_to_voxel(s.center_mm[1], s.center_mm[2], s.center_mm[3], m),
                       m.size)
    ELSE _set_center_voxel(s, m.size[1] \div 2, m.size[2] \div 2, m.size[3] \div 2)

\* Lines 534-563: the status of one ROI on the grid of geometry m. v is the
\* voxel mm_to_voxel returns for the center; rmm / spacing is compared after
\* multiplying through by the (positive) spacing.
RoiStatus(roi, m) ==
    LET v == mm_to_voxel(roi.center_mm[1], roi.center_mm[2], roi.center_mm[3], m)
    IN  IF ~(\A a \in 1..3 : 0 <= v[a] /\ v[a] < m.size[a])
        THEN "OUT"
        ELSE IF \E a \in 1..3 :
                    \/ v[a] * m.spacing[a] - roi.radius_mm < 0
                    \/ v[a] * m.spacing[a] + roi.radius_mm >= m.size[a] * m.spacing[a]
        THEN "PARTIAL"
        ELSE "OK"

\* new_status: a dict by ROI id, so the last ROI with an id gives its entry.
StatusTable(roi_list, m) ==
    [lid \in {roi_list[n].id : n \in 1..Len(roi_list)} |->
        RoiStatus(roi_list[CHOOSE n \in 1..Len(roi_list) :
                               /\ roi_list[n].id = lid
                               /\ \A o \in (n + 1)..Len(roi_list) : roi_list[o].id # lid],
                  m)]

\* validate_rois_for_current_series that keeps the entries it had for ROI ids
\* still in the table.
validate_rois_keeps_old(s) ==
    IF s.meta = NoMeta \/ s.rois = <<>>
    THEN [s EXCEPT !.roi_status = [x \in {} |-> x]]
    ELSE [s EXCEPT !.roi_status =
              [lid \in DOMAIN StatusTable(s.rois, Geometry(s.meta)) |->
                  IF lid \in DOMAIN s.roi_status THEN s.roi_status[lid]
                  ELSE StatusTable(s.rois, Geometry(s.meta))[lid]]]

\* Lines 522-572.
validate_rois_for_current_series(s) ==
    IF s.meta = NoMeta \/ s.rois = <<>>
    THEN [s EXCEPT !.roi_status = [x \in {} |-> x]]
    ELSE [s EXCEPT !.roi_status = StatusTable(s.rois, Geometry(s.meta)),
                   !.last_message =
                       IF \E n \in 1..Len(s.rois) :
                              RoiStatus(s.rois[n], Geometry(s.meta)) = "OUT"
                       THEN "Atencao: ROIs fora do volume"
                       ELSE s.last_message]

\* AfterVolumeBound that discards the candidate and leaves the lock flag.
AfterVolumeBoundKeepsLock(s) ==
    update_plot([PlaceCenter(WithRois(validate_rois_for_current_series(s), RebindRois(s.rois, Geometry(s.meta))),
                             Geometry(s.meta))
                    EXCEPT !.view_state = FitAll,
                           !.candidate_center = None,
                           !.last_message = "Pronto"])

\* Lines 625-670: what follows a cache hit or a successful decode.
AfterVolumeBound(s) ==
    update_plot([PlaceCenter(WithRois(validate_rois_for_current_series(s), RebindRois(s.rois, Geometry(s.meta))),
                             Geometry(s.meta))
                    EXCEPT !.view_state = FitAll,
                           !.candidate_center = None,
                           !.is_locked = FALSE,
                           !.last_message = "Pronto"])

\* CacheInsert that makes room by dropping the entry touched last.
CacheInsertEvictsNewest(s, key, vol) ==
    LET full   == Len(s.cache_order) >= max_cache_size
        newest == s.cache_order[Len(s.cache_order)]
        kept   == IF full THEN SubSeq(s.cache_order, 1, Len(s.cache_order) - 1)
                  ELSE s.cache_order
        cache0 == IF full THEN Drop(s.series_cache, newest) ELSE s.series_cache
    IN  [s EXCEPT !.series_cache = Put(cache0, key, vol),
                  !.cache_order = Append(kept, key)]

\* Insert a decoded volume, evicting the head of the order beyond the capacity.
CacheInsert(s, key, vol) ==
    LET cache1 == Put(s.series_cache, key, vol)
        order1 == Append(s.cache_order, key)
    IN  IF Len(order1) > max_cache_size
        THEN [s EXCEPT !.series_cache = IF HasKey(cache1, Head(order1))
                                        THEN Drop(cache1, Head(order1)) ELSE cache1,
                       !.cache_order = Tail(order1)]
        ELSE [s EXCEPT !.series_cache = cache1, !.cache_order = order1]

\* decode_ok: whether dicom_io.load_dicom_series_by_path returns (TRUE) or raises.
load_current_series(s, decode_ok) ==
    IF s.series_list = <<>> \/ s.current_series_idx >= Len(s.series_list)
    THEN [s EXCEPT !.meta = NoMeta, !.center_voxel = <<0, 0, 0>>, !.center_mm = None,
                   !.current_slice = 0]
    ELSE LET key == <<CaseName(s), s.current_series_idx>>
         IN  IF HasKey(s.series_cache, key)
             THEN AfterVolumeBound(
                      [s EXCEPT !.meta = s.series_cache[key],
                                !.cache_order = Append(RemoveFirst(s.cache_order, key), key)])
             ELSE IF decode_ok
             THEN LET vol == s.series_list[s.current_series_idx + 1].series_uid
                  IN  AfterVolumeBound(CacheInsert([s EXCEPT !.meta = vol], key, vol))
             ELSE update_plot([s EXCEPT !.last_message = "ERRO ao carregar serie"])


\* ------------------------------------------------------------------- ROI store
\* roi_export.save_roi_json: the "rois" array written to the file.
save_roi_json(case_id, roi_list) ==
    [n \in 1..Len(roi_list) |->
        [id |-> roi_list[n].id,
         case_id |-> case_id,
         series_instance_uid |-> roi_list[n].series_uid,
         center_xyz_mm |-> roi_list[n].center_mm,
         radius_mm |-> roi_list[n].radius_mm]]

\* _autosave_rois that returns early on an empty list.
_autosave_rois_unless_empty(s, write_ok) ==
    IF s.cases_list = <<>> \/ s.current_case_idx < 0 \/ s.rois = <<>> THEN s
    ELSE IF write_ok
    THEN [s EXCEPT !.sidecar = Put(s.sidecar, CaseName(s), save_roi_json(CaseName(s), s.rois))]
    ELSE s

\* write_ok: whether the write of rois_latest.json succeeds (TRUE) or raises.
_autosave_rois(s, write_ok) ==
    IF s.cases_list = <<>> \/ s.current_case_idx < 0 THEN s
    ELSE IF write_ok
    THEN [s EXCEPT !.sidecar = Put(s.sidecar, CaseName(s), save_roi_json(CaseName(s), s.rois))]
    ELSE s

\* The internal ROI built from one record of the sidecar; center_voxel is the
\* placeholder r.get("center_ijk", [0, 0, 0]) since the sidecar has no center_ijk.
LoadedRoi(r) ==
    [id |-> r.id,
     center_mm |-> r.center_xyz_mm,
     radius_mm |-> r.radius_mm,
     series_uid |-> r.series_instance_uid,
     center_voxel |-> <<0, 0, 0>>]

RECURSIVE LoadedRois(_)
LoadedRois(data) ==
    IF data = <<>> THEN <<>>
    ELSE IF Head(data).center_xyz_mm = <<>> THEN LoadedRois(Tail(data))
    ELSE <<LoadedRoi(Head(data))>> \o LoadedRois(Tail(data))

\* Returns the flag and the session.
_autoload_rois(s, case_name) ==
    IF HasKey(s.sidecar, case_name) /\ LoadedRois(s.sidecar[case_name]) # <<>>
    THEN [loaded |-> TRUE,
          s |-> [s EXCEPT !.rois_by_patient =
                              Put(s.rois_by_patient, case_name, LoadedRois(s.sidecar[case_name])),
                          !.last_message = "ROIs carregadas de rois_latest.json",
                          !.lesion_counter = CounterAfter(LoadedRois(s.sidecar[case_name]))]]
    ELSE [loaded |-> FALSE, s |-> s]

\* Lines 418-428: the case is in the in-memory map.
BindFromMemory(s, new_case_name) ==
    [s EXCEPT !.rois = s.rois_by_patient[new_case_name],
              !.lesion_counter = IF s.rois_by_patient[new_case_name] # <<>>
                                 THEN CounterAfter(s.rois_by_patient[new_case_name])
                                 ELSE 1]

\* Lines 429-435: a is what _autoload_rois returned.
BindAutoloaded(a, new_case_name) ==
    IF a.loaded
    THEN [a.s EXCEPT !.rois = a.s.rois_by_patient[new_case_name]]
    ELSE [a.s EXCEPT !.rois = <<>>, !.lesion_counter = 1]

\* BindCaseRois that reads the sidecar before it looks at the in-memory map.
BindCaseRoisFromDisk(s, new_case_name) ==
    IF HasKey(s.sidecar, new_case_name) \/ ~HasKey(s.rois_by_patient, new_case_name)
    THEN BindAutoloaded(_autoload_rois(s, new_case_name), new_case_name)
    ELSE BindFromMemory(s, new_case_name)

\* Lines 416-435 of load_case: the ROI list of the case that becomes active.
BindCaseRois(s, new_case_name) ==
    IF HasKey(s.rois_by_patient, new_case_name)
    THEN BindFromMemory(s, new_case_name)
    ELSE BindAutoloaded(_autoload_rois(s, new_case_name), new_case_name)

\* Returns the flag and the session.
load_case(s, case_idx, decode_ok) ==
    IF ~(0 <= case_idx /\ case_idx < Len(s.cases_list))
    THEN [ret |-> FALSE, s |-> s]
    ELSE [ret |-> TRUE,
          s |-> update_plot(load_current_series(discover_series(
                    [BindCaseRois([s EXCEPT !.current_case_idx = case_idx,
                                            !.series_list = <<>>,
                                            !.current_series_idx = 0,
                                            !.current_slice = 0],
                                  s.cases_list[case_idx + 1])
                        EXCEPT !.roi_status = [x \in {} |-> x],
                               !.candidate_center = None,
                               !.is_locked = FALSE,
                               !.mode = "NORMAL",
                               !.case_input_str = <<>>,
                               !.series_input_str = <<>>,
                               !.last_message = "Caso carregado."]), decode_ok))]

next_patient(s, delta, decode_ok) ==
    IF s.cases_list = <<>> THEN s
    ELSE update_plot(
             [load_case(s, (s.current_case_idx + delta) % Len(s.cases_list), decode_ok).s
                 EXCEPT !.last_message = "Paciente"])

\* ConfirmRejected that also advances the id counter.
ConfirmRejectedBumpsCounter(s) ==
    update_plot([s EXCEPT !.last_message = "AVISO: Trave o centro com clique primeiro!",
                          !.lesion_counter = s.lesion_counter + 1])

\* Lines 2169-2172: confirm without a locked candidate.
ConfirmRejected(s) ==
    update_plot([s EXCEPT !.last_message = "AVISO: Trave o centro com clique primeiro!"])

confirm_roi(s, write_ok) ==
    IF ~s.is_locked \/ s.candidate_center = None
    THEN ConfirmRejected(s)
    ELSE LET c   == s.candidate_center
             roi == [id |-> FormatId(s.lesion_counter),
                     center_voxel |-> c,
                     center_mm |-> voxel_to_mm(c[1], c[2], c[3], Geometry(s.meta)),
                     radius_mm |-> s.radius_mm,
                     series_uid |-> s.series_list[s.current_series_idx + 1].series_uid]
             s1  == [s EXCEPT !.rois = Append(s.rois, roi),
                              !.rois_by_patient = Put(s.rois_by_patient, CaseName(s),
                                                      Append(s.rois, roi)),
                              !.last_message = "ROI confirmada! (autosave OK)"]
             s2  == _autosave_rois(s1, write_ok)
         IN  update_plot([s2 EXCEPT !.lesion_counter = s.lesion_counter + 1,
                                    !.is_locked = FALSE,
                                    !.candidate_center = None])

\* delete_last_roi that leaves the id counter as it was.
delete_last_roi_keeps_counter(s, write_ok) ==
    IF s.rois = <<>>
    THEN update_plot([s EXCEPT !.last_message = "Nenhuma ROI para remover"])
    ELSE LET rest == SubSeq(s.rois, 1, Len(s.rois) - 1)
             s1   == [s EXCEPT !.rois = rest,
                               !.rois_by_patient = Put(s.rois_by_patient, CaseName(s), rest),
                               !.last_message = "ROI removida"]
         IN  update_plot(_autosave_rois(s1, write_ok))

delete_last_roi(s, write_ok) ==
    IF s.rois = <<>>
    THEN update_plot([s EXCEPT !.last_message = "Nenhuma ROI para remover"])
    ELSE LET rest == SubSeq(s.rois, 1, Len(s.rois) - 1)
             s1   == [s EXCEPT !.rois = rest,
                               !.rois_by_patient = Put(s.rois_by_patient, CaseName(s), rest),
                               !.last_message = "ROI removida"]
             s2   == _autosave_rois(s1, write_ok)
         IN  update_plot([s2 EXCEPT !.lesion_counter =
                                        IF rest = <<>> THEN 1 ELSE CounterAfter(rest)])


\* ------------------------------------------------------------------ handlers
SelectModes == {"SERIES_SELECT", "CASE_SELECT"}

\* on_click that locks a candidate in the SELECT states as well.
on_click_in_any_mode(s, plane, xdata, ydata) ==
    LET s1 == [s EXCEPT !.active_view = plane]
    IN  IF s.meta = NoMeta THEN s1
        ELSE LET sp == Geometry(s.meta).spacing
                 c  == s.center_voxel
                 v  == IF plane = "axial"
                       THEN <<RoundDiv(xdata, sp[1]), RoundDiv(ydata, sp[2]), c[3]>>
                       ELSE IF plane = "sagittal"
                       THEN <<c[1], RoundDiv(xdata, sp[2]), RoundDiv(ydata, sp[3])>>
                       ELSE <<RoundDiv(xdata, sp[1]), c[2], RoundDiv(ydata, sp[3])>>
             IN  update_plot(
                     [_set_center_voxel(s1, v[1], v[2], v[3])
                         EXCEPT !.candidate_center = v,
                                !.is_locked = TRUE,
                                !.last_message = "Centro travado. Pressione Enter para confirmar."])

\* Left button, single click, inside the axes showing `plane`.
on_click(s, plane, xdata, ydata) ==
    IF s.mode \in SelectModes THEN s
    ELSE LET s1 == [s EXCEPT !.active_view = plane]
         IN  IF s.meta = NoMeta THEN s1
             ELSE LET sp == Geometry(s.meta).spacing
                      c  == s.center_voxel
                      v  == IF plane = "axial"
                            THEN <<RoundDiv(xdata, sp[1]), RoundDiv(ydata, sp[2]), c[3]>>
                            ELSE IF plane = "sagittal"
                            THEN <<c[1], RoundDiv(xdata, sp[2]), RoundDiv(ydata, sp[3])>>
                            ELSE <<RoundDiv(xdata, sp[1]), c[2], RoundDiv(ydata, sp[3])>>
                  IN  update_plot(
                          [_set_center_voxel(s1, v[1], v[2], v[3])
                              EXCEPT !.candidate_center = v,
                                     !.is_locked = TRUE,
                                     !.last_message = "Centro travado. Pressione Enter para confirmar."])

\* Wheel step over the axes showing `plane`; button is "up" or "down".
on_scroll(s, plane, button) ==
    IF s.mode \in SelectModes THEN s
    ELSE IF s.meta = NoMeta THEN s
    ELSE LET d == IF button = "up" THEN 1 ELSE -1
             v == s.view_state[plane]
         IN  update_plot([s EXCEPT !.view_state =
                 Put(s.view_state, plane,
                     [v EXCEPT !.scale = v.scale + d, !.zoom = Max2(0, v.zoom + d)])])

\* Pointer motion over the axes showing `plane`, no button held.
on_mouse_move(s, plane) ==
    IF s.mode \in SelectModes THEN s
    ELSE IF plane # s.active_view THEN update_plot([s EXCEPT !.active_view = plane])
    ELSE s

\* CaseSelectLoaded that returns to NORMAL whatever load_case returns.
CaseSelectLoadedAlwaysLeaves(r) ==
    IF r.ret
    THEN [r.s EXCEPT !.mode = "NORMAL"]
    ELSE [r.s EXCEPT !.mode = "NORMAL", !.last_message = "Caso invalido"]

\* Lines 1988-1991: r is what load_case returned.
CaseSelectLoaded(r) ==
    IF r.ret
    THEN [r.s EXCEPT !.mode = "NORMAL"]
    ELSE [r.s EXCEPT !.last_message = "Caso invalido"]

\* Lines 1984-1996: Enter in CASE_SELECT.
CaseSelectEnter(s, decode_ok) ==
    LET p == ParseInt(s.case_input_str)
    IN  update_plot(
            [(IF ~p.ok
              THEN [s EXCEPT !.last_message = "Entrada invalida (digite apenas numeros)"]
              ELSE CaseSelectLoaded(load_case(s, p.val - 1, decode_ok)))
                EXCEPT !.case_input_str = <<>>])

\* Lines 1997-2001: Escape in CASE_SELECT.
CaseSelectEscape(s) ==
    update_plot([s EXCEPT !.mode = "NORMAL",
                          !.case_input_str = <<>>,
                          !.last_message = "Selecao de caso cancelada"])

\* Lines 1983-2008.
CaseSelectKey(s, key, decode_ok) ==
    IF key = "enter" THEN CaseSelectEnter(s, decode_ok)
    ELSE IF key = "escape" THEN CaseSelectEscape(s)
    ELSE IF key = "backspace"
    THEN update_plot([s EXCEPT !.case_input_str =
                                   SubSeq(s.case_input_str, 1, Len(s.case_input_str) - 1)])
    ELSE IF IsDigit(key)
    THEN update_plot([s EXCEPT !.case_input_str = Append(s.case_input_str, key)])
    ELSE s

\* SeriesSelectEnter that takes n itself as the index.
SeriesSelectEnterOffByOne(s, decode_ok) ==
    LET p == ParseInt(s.series_input_str)
    IN  update_plot(
            [(IF ~p.ok
              THEN [s EXCEPT !.last_message = "Entrada invalida (digite apenas numeros)"]
              ELSE IF 0 <= p.val /\ p.val < Len(s.series_list)
              THEN [load_current_series([s EXCEPT !.current_series_idx = p.val],
                                        decode_ok)
                       EXCEPT !.last_message = "Trocado para serie",
                              !.mode = "NORMAL"]
              ELSE [s EXCEPT !.last_message = "Indice invalido"])
                EXCEPT !.series_input_str = <<>>])

\* Lines 2012-2029: Enter in SERIES_SELECT.
SeriesSelectEnter(s, decode_ok) ==
    LET p == ParseInt(s.series_input_str)
    IN  update_plot(
            [(IF ~p.ok
              THEN [s EXCEPT !.last_message = "Entrada invalida (digite apenas numeros)"]
              ELSE IF 0 <= p.val - 1 /\ p.val - 1 < Len(s.series_list)
              THEN [load_current_series([s EXCEPT !.current_series_idx = p.val - 1],
                                        decode_ok)
                       EXCEPT !.last_message = "Trocado para serie",
                              !.mode = "NORMAL"]
              ELSE [s EXCEPT !.last_message = "Indice invalido"])
                EXCEPT !.series_input_str = <<>>])

\* SeriesSelectEscape that leaves the typed digits in the buffer.
SeriesSelectEscapeKeepsBuffer(s) ==
    update_plot([s EXCEPT !.mode = "NORMAL",
                          !.last_message = "Selecao cancelada"])

\* Lines 2030-2034: Escape in SERIES_SELECT.
SeriesSelectEscape(s) ==
    update_plot([s EXCEPT !.mode = "NORMAL",
                          !.series_input_str = <<>>,
                          !.last_message = "Selecao cancelada"])

\* Lines 2011-2041.
SeriesSelectKey(s, key, decode_ok) ==
    IF key = "enter" THEN SeriesSelectEnter(s, decode_ok)
    ELSE IF key = "escape" THEN SeriesSelectEscape(s)
    ELSE IF key = "backspace"
    THEN update_plot([s EXCEPT !.series_input_str =
                                   SubSeq(s.series_input_str, 1, Len(s.series_input_str) - 1)])
    ELSE IF IsDigit(key)
    THEN update_plot([s EXCEPT !.series_input_str = Append(s.series_input_str, key)])
    ELSE s

\* Lines 2044-2140: the keys of NORMAL mode that touch the modelled state.
NormalKey(s, key, decode_ok, write_ok) ==
    IF key = "c"
    THEN update_plot([s EXCEPT !.mode = "CASE_SELECT", !.case_input_str = <<>>])
    ELSE IF key = "ctrl+up" THEN next_patient(s, -1, decode_ok)
    ELSE IF key = "ctrl+down" THEN next_patient(s, 1, decode_ok)
    ELSE IF key \in {"up", "right"} THEN update_plot(_move_center_slice(s, s.active_view, 1))
    ELSE IF key \in {"down", "left"} THEN update_plot(_move_center_slice(s, s.active_view, -1))
    ELSE IF key = "z"
    THEN update_plot([s EXCEPT !.view_state =
             [p \in Planes |-> [mode |-> IF s.view_state[p].mode # "CROP" THEN "CROP" ELSE "FULL",
                                scale |-> 0, zoom |-> s.view_state[p].zoom]]])
    ELSE IF key = "r"
    THEN update_plot([s EXCEPT !.view_state = Put(s.view_state, s.active_view, FitView)])
    ELSE IF key = "R" THEN update_plot([s EXCEPT !.view_state = FitAll])
    ELSE IF key \in {"+", "="}
    THEN update_plot([s EXCEPT !.radius_mm = s.radius_mm + RadiusStep])
    ELSE IF key \in {"-", "_"}
    THEN update_plot([s EXCEPT !.radius_mm = Max2(RadiusFloor, s.radius_mm - RadiusStep)])
    ELSE IF key = "x"
    THEN update_plot([s EXCEPT !.is_locked = FALSE,
                               !.candidate_center = None,
                               !.last_message = "Selecao limpa."])
    ELSE IF key = "enter" THEN confirm_roi(s, write_ok)
    ELSE IF key = "delete" THEN delete_last_roi(s, write_ok)
    ELSE IF IsDigit(key) /\ key # "0"
    THEN IF ~IsDecimal(key) THEN s  \* int(event.key) raises; caught at line 2141
         ELSE IF DigitVal(key) - 1 < Len(s.series_list)
         THEN update_plot(
                  [load_current_series([s EXCEPT !.current_series_idx = DigitVal(key) - 1],
                                       decode_ok)
                      EXCEPT !.last_message = "Trocado para serie"])
         ELSE s
    ELSE s

ViewOfKey(key) == IF key = "a" THEN "axial" ELSE IF key = "k" THEN "coronal" ELSE "sagittal"

\* on_key whose ctrl+g branch is taken in every mode.
on_key_goto_in_any_mode(s, key, decode_ok, write_ok) ==
    IF key = "q" THEN s
    ELSE IF s.mode = "NORMAL" /\ key \in {"a", "k", "s"}
    THEN update_plot([s EXCEPT !.active_view = ViewOfKey(key),
                               !.last_message = "Painel principal"])
    ELSE IF key = "ctrl+g"
    THEN update_plot([s EXCEPT !.mode = "SERIES_SELECT", !.series_input_str = <<>>])
    ELSE IF s.mode = "CASE_SELECT" THEN CaseSelectKey(s, key, decode_ok)
    ELSE IF s.mode = "SERIES_SELECT" THEN SeriesSelectKey(s, key, decode_ok)
    ELSE NormalKey(s, key, decode_ok, write_ok)

on_key(s, key, decode_ok, write_ok) ==
    IF key = "q" THEN s
    ELSE IF s.mode = "NORMAL" /\ key \in {"a", "k", "s"}
    THEN update_plot([s EXCEPT !.active_view = ViewOfKey(key),
                               !.last_message = "Painel principal"])
    ELSE IF s.mode = "NORMAL" /\ key = "ctrl+g"
    THEN update_plot([s EXCEPT !.mode = "SERIES_SELECT", !.series_input_str = <<>>])
    ELSE IF s.mode = "CASE_SELECT" THEN CaseSelectKey(s, key, decode_ok)
    ELSE IF s.mode = "SERIES_SELECT" THEN SeriesSelectKey(s, key, decode_ok)
    ELSE NormalKey(s, key, decode_ok, write_ok)

\* --------------------------------------------------------------- construction
EmptyMap == [x \in {} |-> x]

\* rois_latest.json of case A as an earlier session left it: two ROIs confirmed
\* on series uA1, the second with a raised radius.
PriorSidecar ==
    save_roi_json("A",
        << [id |-> FormatId(1), center_voxel |-> <<0, 0, 0>>,
            center_mm |-> voxel_to_mm(0, 0, 0, Geometry("uA1")),
            radius_mm |-> RadiusInit, series_uid |-> "uA1"],
           [id |-> FormatId(2), center_voxel |-> <<0, 0, 1>>,
            center_mm |-> voxel_to_mm(0, 0, 1, Geometry("uA1")),
            radius_mm |-> RadiusInit + RadiusStep, series_uid |-> "uA1"] >>)

\* Lines 226-281 with discover_patients (283-312): the cases under input_root.
discover_workspace(s) ==
    IF CasesIn(s.input_root) # <<>>
    THEN [s EXCEPT !.is_samples_mode = TRUE,
                   !.cases_list = CasesIn(s.input_root),
                   !.current_case_idx =
                       IF s.current_case_idx < 0
                          \/ s.current_case_idx >= Len(CasesIn(s.input_root))
                       THEN 0 ELSE s.current_case_idx]
    ELSE IF IsSingleCase(s.input_root)
    THEN [s EXCEPT !.is_samples_mode = FALSE,
                   !.cases_list = <<BaseName(s.input_root)>>,
                   !.current_case_idx = 0]
    ELSE [s EXCEPT !.is_samples_mode = FALSE,
                   !.cases_list = <<>>,
                   !.last_message = "Pasta invalida."]

\* __init__ up to line 217, with the outcome of discover_workspace: a SAMPLES
\* root holding the cases A and B (multi), or the directory of case A (single).
Fresh(multi, prior) ==
    [ cases_list |-> IF multi THEN <<"A", "B">> ELSE <<"A">>,
      input_root |-> IF multi THEN RootOne ELSE CaseDirA,
      roi_status |-> EmptyMap,
      last_preds |-> <<>>, case_summary |-> None,
      current_case_idx |-> 0,
      is_samples_mode |-> multi,
      series_list |-> <<>>, current_series_idx |-> 0,
      meta |-> NoMeta, series_cache |-> EmptyMap, cache_order |-> <<>>,
      center_voxel |-> <<0, 0, 0>>, center_mm |-> None, current_slice |-> 0,
      active_view |-> "axial", view_state |-> FitAll,
      candidate_center |-> None, is_locked |-> FALSE, radius_mm |-> RadiusInit,
      mode |-> "NORMAL", series_input_str |-> <<>>, case_input_str |-> <<>>,
      rois |-> <<>>, rois_by_patient |-> EmptyMap, lesion_counter |-> 1,
      last_message |-> "Pronto",
      sidecar |-> IF prior THEN Put(EmptyMap, "A", PriorSidecar) ELSE EmptyMap ]

\* Lines 2303-2334. new_root is what the folder dialog returned.
open_data_root(s, new_root, decode_ok) ==
    IF new_root = Cancelled THEN s
    ELSE LET found == discover_workspace([s EXCEPT !.input_root = new_root])
         IN  IF found.cases_list # <<>>
             THEN update_plot([load_case(found, 0, decode_ok).s
                                  EXCEPT !.last_message = "Raiz configurada"])
             ELSE update_plot(discover_workspace([found EXCEPT !.input_root = s.input_root]))

\* Lines 218-224.
Constructed(multi, prior, decode_ok) ==
    IF multi
    THEN load_case(Fresh(multi, prior), 0, decode_ok).s
    ELSE load_current_series(discover_series(Fresh(multi, prior)), decode_ok)

\* A session starts on either workspace; priors says whether an earlier session
\* may have left a sidecar, decodes which outcomes the first decode can have.
InitWith(priors, decodes) ==
    \E multi \in BOOLEAN, prior \in priors, decode_ok \in decodes :
        StartsAs(Constructed(multi, prior, decode_ok))

\* The session constructed on a SAMPLES root, without earlier sidecars.
ConstructedAt(root, decode_ok) ==
    load_case(discover_workspace([Fresh(TRUE, FALSE) EXCEPT !.input_root = root,
                                                            !.cases_list = <<>>]),
              0, decode_ok).s

\* --------------------------------------------------------------------- actions
\* The environment decides whether a decode or a write succeeds (TRUE) or raises;
\* each action draws the outcomes from the set it is given.
Outcomes == BOOLEAN
Succeeds == {TRUE}

\* ROIs held in memory over all cases: the active list and the lists of the
\* other registered cases.
RECURSIVE SumLen(_, _)
SumLen(f, keys) ==
    IF keys = {} THEN 0
    ELSE LET k == CHOOSE x \in keys : TRUE
         IN  Len(f[k]) + SumLen(f, keys \ {k})

TotalRois(s) == Len(s.rois) + SumLen(s.rois_by_patient, DOMAIN s.rois_by_patient \ {CaseName(s)})

\* ctrl+g and c open a SELECT state.
KeyOpenSelect ==
    \E key \in {"ctrl+g", "c"} :
        /\ mode = "NORMAL"
        /\ \E t \in {on_key(Self, key, TRUE, TRUE)} : Becomes(t)

\* A digit key in a SELECT state: appended to the buffer.
KeyBufferDigit ==
    \E key \in DigitKeys :
        /\ mode \in SelectModes
        /\ mode = "SERIES_SELECT" => Len(series_input_str) < MaxBuf
        /\ mode = "CASE_SELECT" => Len(case_input_str) < MaxBuf
        /\ \E t \in {on_key(Self, key, TRUE, TRUE)} : Becomes(t)

KeyEscape ==
    /\ mode \in SelectModes
    /\ \E t \in {on_key(Self, "escape", TRUE, TRUE)} : Becomes(t)

KeyBackspace ==
    /\ mode \in SelectModes
    /\ \E t \in {on_key(Self, "backspace", TRUE, TRUE)} : Becomes(t)

\* Enter in a SELECT state: resolves the buffer.
KeySelectEnter(decodes) ==
    \E decode_ok \in decodes :
        /\ mode \in SelectModes
        /\ \E t \in {on_key(Self, "enter", decode_ok, TRUE)} : Becomes(t)

\* A digit key in NORMAL: the series shortcut.
KeySeriesShortcut(decodes) ==
    \E key \in DigitKeys, decode_ok \in decodes :
        /\ mode = "NORMAL"
        /\ \E t \in {on_key(Self, key, decode_ok, TRUE)} : Becomes(t)

\* A digit key in NORMAL on a case with many series.
SeriesKeys == {"1", "2", "3", "4", "5", "6", "7"}
KeySeriesAny(decodes) ==
    \E key \in SeriesKeys, decode_ok \in decodes :
        /\ mode = "NORMAL"
        /\ \E t \in {on_key(Self, key, decode_ok, TRUE)} : Becomes(t)

\* 'o' in NORMAL (line 1978): the folder dialog returns one of roots.
KeyOpenRoot(roots, decodes) ==
    \E new_root \in roots, decode_ok \in decodes :
        /\ mode = "NORMAL"
        /\ \E t \in {open_data_root(Self, new_root, decode_ok)} : Becomes(t)

\* ctrl+up / ctrl+down in NORMAL: previous / next case.
KeyCase(decodes) ==
    \E key \in {"ctrl+up", "ctrl+down"}, decode_ok \in decodes :
        /\ mode = "NORMAL"
        /\ \E t \in {on_key(Self, key, decode_ok, TRUE)} : Becomes(t)

\* Enter in NORMAL: confirm_roi, while fewer than cap ROIs are held.
KeyConfirm(writes, cap) ==
    \E write_ok \in writes :
        /\ mode = "NORMAL"
        /\ is_locked => TotalRois(Self) < cap
        /\ \E t \in {on_key(Self, "enter", TRUE, write_ok)} : Becomes(t)

KeyDelete(writes) ==
    \E write_ok \in writes :
        /\ mode = "NORMAL"
        /\ \E t \in {on_key(Self, "delete", TRUE, write_ok)} : Becomes(t)

KeyClear ==
    /\ mode = "NORMAL"
    /\ \E t \in {on_key(Self, "x", TRUE, TRUE)} : Becomes(t)

KeyRadius ==
    \E key \in {"+", "-"} :
        /\ mode = "NORMAL"
        /\ key = "+" => radius_mm < RadiusInit + MaxRadiusSteps * RadiusStep
        /\ key = "-" => radius_mm > RadiusInit
        /\ \E t \in {on_key(Self, key, TRUE, TRUE)} : Becomes(t)

KeySlice ==
    \E key \in {"up", "down"} :
        /\ mode = "NORMAL"
        /\ \E t \in {on_key(Self, key, TRUE, TRUE)} : Becomes(t)

KeyView ==
    \E key \in {"a", "k", "s"} :
        /\ mode = "NORMAL"
        /\ \E t \in {on_key(Self, key, TRUE, TRUE)} : Becomes(t)

Click(events) ==
    \E e \in events :
        \E t \in {on_click(Self, e[1], e[2], e[3])} : Becomes(t)

\* The ROI lifecycle in a session whose decodes and writes succeed: clicks,
\* confirm, delete-last, series and case switches from NORMAL, started with or
\* without a sidecar left by an earlier session.
NextRoi ==
    \/ Click(ClickEvents)
    \/ KeyConfirm(Succeeds, MaxRois)
    \/ KeyDelete(Succeeds)
    \/ KeySeriesShortcut(Succeeds)
    \/ KeyCase(Succeeds)

InitRoi == InitWith(BOOLEAN, Succeeds)

SpecRoi == InitRoi /\ [][NextRoi]_vars

\* The sidecar under writes that may fail, and a first decode that may fail:
\* clicks, confirm, delete-last and case switches on each case's default series.
NextIO ==
    \/ Click(FarClick)
    \/ KeyConfirm(Outcomes, MaxRois)
    \/ KeyDelete(Outcomes)
    \/ KeyCase(Succeeds)

InitIO == InitWith(BOOLEAN, Outcomes)

SpecIO == InitIO /\ [][NextIO]_vars

\* Confirming under radius changes and series switches whose decode may fail.
NextConfirm ==
    \/ Click(ClickEvents)
    \/ KeyRadius
    \/ KeyConfirm(Succeeds, MaxNavRois)
    \/ KeyDelete(Succeeds)
    \/ KeySeriesShortcut(Outcomes)

InitConfirm == InitWith({FALSE}, Succeeds)

SpecConfirm == InitConfirm /\ [][NextConfirm]_vars

\* The mode machine: the SELECT states and their buffers, with series and case
\* switches whose decode may fail, over the candidates that clicks produce and
\* the ROI lists that an earlier session's sidecar provides.
NextNav ==
    \/ KeyOpenSelect
    \/ KeyBufferDigit
    \/ KeyEscape
    \/ KeyBackspace
    \/ KeySelectEnter(Outcomes)
    \/ KeySeriesShortcut(Outcomes)
    \/ KeyCase(Outcomes)
    \/ Click(FarClick)
    \/ KeyClear

InitNav == InitWith(BOOLEAN, Succeeds)

SpecNav == InitNav /\ [][NextNav]_vars

\* ===================================================================== claims
\* An ROI without its derived voxel center, and a list of them.
Durable(roi) ==
    [id |-> roi.id, center_mm |-> roi.center_mm,
     radius_mm |-> roi.radius_mm, series_uid |-> roi.series_uid]
DurableList(roi_list) == [n \in 1..Len(roi_list) |-> Durable(roi_list[n])]

\* The numeric suffix of an ROI's id, as int() reads it.
Suffix(roi) == ParseInt(Tail(roi.id))

IdsWellFormed(roi_list) ==
    \A n \in 1..Len(roi_list) :
        /\ Head(roi_list[n].id) = "L"
        /\ Suffix(roi_list[n]).ok
        /\ Suffix(roi_list[n]).val >= 1
IdsIncreasing(roi_list) ==
    \A m, n \in 1..Len(roi_list) :
        m < n => Suffix(roi_list[m]).val < Suffix(roi_list[n]).val
NextIdFollows ==
    lesion_counter = IF rois = <<>> THEN 1 ELSE Suffix(rois[Len(rois)]).val + 1

\* C1: in every reachable state the active case's ROI ids are L<n> with strictly
\* increasing suffixes and the id counter is the last suffix plus one (1 for an
\* empty list); a delete-last step leaves the counter at the suffix of the ROI
\* it removed, so the next confirm assigns that id again.
C1_IdSequence ==
    /\ [](IdsWellFormed(rois) /\ IdsIncreasing(rois) /\ NextIdFollows)
    /\ [][KeyDelete(Outcomes) /\ rois # <<>>
            => FormatId(lesion_counter') = rois[Len(rois)].id]_vars

\* C1 witness: the list loaded from the earlier session's sidecar lost its L2 to
\* delete-last and a new ROI was confirmed, which is L2 again.
C1_Witness ==
    /\ Len(rois) = 2
    /\ rois[1].center_mm = PriorSidecar[1].center_xyz_mm
    /\ rois[2].id = FormatId(2)
    /\ rois[2].center_mm # PriorSidecar[2].center_xyz_mm
    /\ lesion_counter = 3

\* C2: a confirm step with a locked candidate c appends exactly one ROI, whose
\* id is L<counter>, whose physical center is voxel_to_mm(c) in the geometry of
\* the loaded volume, whose radius is the radius setting and whose series UID is
\* the UID of the series the loaded volume belongs to; the counter goes up by
\* one, candidate and lock are cleared.
C2_ConfirmAppends ==
    [][KeyConfirm(Succeeds, MaxNavRois) /\ is_locked /\ candidate_center # None
        => /\ Len(rois') = Len(rois) + 1
           /\ SubSeq(rois', 1, Len(rois)) = rois
           /\ rois'[Len(rois')].id = FormatId(lesion_counter)
           /\ rois'[Len(rois')].center_mm =
                  voxel_to_mm(candidate_center[1], candidate_center[2],
                              candidate_center[3], Geometry(meta))
           /\ rois'[Len(rois')].radius_mm = radius_mm
           /\ rois'[Len(rois')].series_uid = meta
           /\ lesion_counter' = lesion_counter + 1
           /\ candidate_center' = None
           /\ ~is_locked'
      ]_vars

\* C2 witness: after the decode of case A's second series failed, the volume of
\* the first series is still the one loaded and an ROI confirmed on it carries
\* the UID of the second.
C2_Witness ==
    /\ rois # <<>>
    /\ rois[Len(rois)].series_uid = "uA2" /\ meta = "uA1"
    /\ current_series_idx = 1
    /\ candidate_center = None /\ ~is_locked /\ lesion_counter = 2

\* C3: an Enter step in NORMAL with no locked candidate leaves the ROI list, the
\* id counter, the per-case map, the sidecars and the mode as they are and sets
\* the warning message.
C3_ConfirmWithoutLock ==
    [][KeyConfirm(Succeeds, MaxNavRois) /\ ~(is_locked /\ candidate_center # None)
        => /\ UNCHANGED <<rois, lesion_counter, rois_by_patient, sidecar, mode>>
           /\ UNCHANGED <<candidate_center, is_locked>>
           /\ last_message' = "warning"
      ]_vars

\* C3 witness: the warning is on the HUD in NORMAL, no candidate is locked and
\* the list still holds its ROI.
C3_Witness ==
    /\ mode = "NORMAL" /\ last_message = "warning"
    /\ ~is_locked /\ candidate_center = None
    /\ Len(rois) = 1 /\ lesion_counter = 2

\* b is a with nothing changed, one ROI appended, or the tail ROI removed.
StackStep(a, b) ==
    \/ DurableList(b) = DurableList(a)
    \/ Len(b) = Len(a) + 1 /\ SubSeq(DurableList(b), 1, Len(a)) = DurableList(a)
    \/ Len(a) = Len(b) + 1 /\ SubSeq(DurableList(a), 1, Len(b)) = DurableList(b)

\* The records of a sidecar as durable ROIs.
SidecarAsDurable(data) ==
    [n \in 1..Len(data) |->
        [id |-> data[n].id, center_mm |-> data[n].center_xyz_mm,
         radius_mm |-> data[n].radius_mm, series_uid |-> data[n].series_instance_uid]]

\* C4: a case keeps its in-memory list once it has one; in every step the list
\* stays as it is, gains one ROI at the tail (only in a confirm step) or loses
\* its tail ROI (only in a delete-last step), the id, physical center, radius
\* and series UID of the ROIs that stay are unchanged; a list that comes into
\* being is the first confirmed ROI or the case's sidecar; and the active list
\* is the active case's in-memory list (empty when the case has none).
C4_StackDiscipline ==
    /\ [](rois = IF HasKey(rois_by_patient, CaseName(Self))
                 THEN rois_by_patient[CaseName(Self)] ELSE <<>>)
    /\ [][/\ DOMAIN rois_by_patient \subseteq DOMAIN rois_by_patient'
          /\ \A c \in DOMAIN rois_by_patient :
                /\ StackStep(rois_by_patient[c], rois_by_patient'[c])
                /\ Len(rois_by_patient'[c]) > Len(rois_by_patient[c])
                      => KeyConfirm(Outcomes, MaxRois)
                /\ Len(rois_by_patient'[c]) < Len(rois_by_patient[c])
                      => KeyDelete(Outcomes)
          /\ \A c \in DOMAIN rois_by_patient' \ DOMAIN rois_by_patient :
                \/ Len(rois_by_patient'[c]) = 1 /\ KeyConfirm(Outcomes, MaxRois)
                \/ /\ HasKey(sidecar, c)
                   /\ DurableList(rois_by_patient'[c]) = SidecarAsDurable(sidecar[c])
         ]_vars

\* C4 witness: an ROI confirmed on series uA1 beyond the grid is still the head
\* of case A's list while series uA2 is loaded, where its voxel center has been
\* rewritten and a second ROI has been confirmed.
C4_Witness ==
    /\ CaseName(Self) = "A" /\ meta = "uA2"
    /\ Len(rois) = 2
    /\ rois[1].series_uid = "uA1" /\ rois[1].center_mm = <<2, 1, 0>>
    /\ rois[1].center_voxel # <<2, 1, 0>>
    /\ rois[2].series_uid = "uA2"


\* C5: after a confirm step that appends, and after a delete-last step that
\* removes, when the write succeeds, the active case's sidecar exists and holds
\* the records of exactly the in-memory list of that case, in order, each with
\* the ROI's id, physical center, radius and series UID, under the case's name.
C5_SidecarMirrorsList ==
    [][(KeyConfirm(Succeeds, MaxRois) /\ is_locked) \/ (KeyDelete(Succeeds) /\ rois # <<>>)
        => /\ HasKey(sidecar', CaseName(Self))
           /\ SidecarAsDurable(sidecar'[CaseName(Self)]) = DurableList(rois')
           /\ \A n \in 1..Len(rois') : sidecar'[CaseName(Self)][n].case_id = CaseName(Self)
           /\ HasKey(rois_by_patient', CaseName(Self))
           /\ rois_by_patient'[CaseName(Self)] = rois'
      ]_vars

\* C5 witness: case B's sidecar is the empty list a delete-last wrote, and case
\* A's sidecar is the one ROI a confirm wrote, which is A's list.
C5_Witness ==
    /\ CaseName(Self) = "A" /\ Len(rois) = 1
    /\ HasKey(sidecar, "A") /\ SidecarAsDurable(sidecar["A"]) = DurableList(rois)
    /\ HasKey(sidecar, "B") /\ sidecar["B"] = <<>>

\* The case a ctrl+up / ctrl+down step makes active.
SwitchTarget == cases_list[current_case_idx' + 1]

\* C6: a case-switch step to a case without an in-memory list binds the list
\* the sidecar holds (same order, ids, physical centers, radii, series UIDs),
\* registers it and sets the id counter after its last id, or binds the empty
\* list with counter 1 when there is no sidecar; a switch to a case with an
\* in-memory list binds that list whatever the sidecar holds; the switch
\* writes no sidecar (stated contrapositively: a step that ends otherwise is
\* not a case switch).
C6_CaseSwitchBinding ==
    [][~(/\ sidecar' = sidecar
         /\ IF HasKey(rois_by_patient, SwitchTarget)
            THEN /\ DurableList(rois') = DurableList(rois_by_patient[SwitchTarget])
                 /\ lesion_counter' = IF rois' = <<>> THEN 1
                                      ELSE Suffix(rois'[Len(rois')]).val + 1
            ELSE IF HasKey(sidecar, SwitchTarget) /\ sidecar[SwitchTarget] # <<>>
            THEN /\ DurableList(rois') = SidecarAsDurable(sidecar[SwitchTarget])
                 /\ HasKey(rois_by_patient', SwitchTarget)
                 /\ rois_by_patient'[SwitchTarget] = rois'
                 /\ lesion_counter' = Suffix(rois'[Len(rois')]).val + 1
            ELSE rois' = <<>> /\ lesion_counter' = 1)
        => ~KeyCase(Outcomes)
      ]_vars

\* C6 witness: the single-case session, which starts with an empty list, shows
\* the two ROIs of the earlier session's sidecar after a case switch, with the
\* id counter at 3.
C6_Witness ==
    /\ ~is_samples_mode
    /\ HasKey(sidecar, "A") /\ sidecar["A"] = PriorSidecar
    /\ DurableList(rois) = SidecarAsDurable(PriorSidecar)
    /\ HasKey(rois_by_patient, "A") /\ rois_by_patient["A"] = rois
    /\ lesion_counter = 3


\* The buffer of the SELECT state and what it indexes.
SelectBuffer == IF mode = "SERIES_SELECT" THEN series_input_str ELSE case_input_str
SelectCount == IF mode = "SERIES_SELECT" THEN Len(series_list) ELSE Len(cases_list)
BufferValid ==
    /\ ParseInt(SelectBuffer).ok
    /\ 1 <= ParseInt(SelectBuffer).val
    /\ ParseInt(SelectBuffer).val <= SelectCount

\* C7: an Enter step in a SELECT state whose buffer is empty, not a number or a
\* number outside 1..count sets an input-error message, stays in that SELECT
\* state with the buffers empty and changes nothing else.
C7_InvalidSelectInput ==
    [][KeySelectEnter(Outcomes) /\ ~BufferValid
        => /\ mode' = mode
           /\ series_input_str' = <<>> /\ case_input_str' = <<>>
           /\ last_message' = "input_error"
           /\ UNCHANGED <<cases_list, current_case_idx, is_samples_mode, series_list,
                          current_series_idx, meta, series_cache, cache_order,
                          center_voxel, center_mm, active_view, candidate_center,
                          is_locked, radius_mm, rois, rois_by_patient, lesion_counter,
                          sidecar>>
      ]_vars

\* C7 witness: CASE_SELECT shows the input error with an empty buffer while the
\* locked candidate is still there.
C7_Witness ==
    /\ mode = "CASE_SELECT" /\ last_message = "input_error"
    /\ case_input_str = <<>>
    /\ is_locked /\ candidate_center # None

\* What a resolved Enter is to achieve, n being the number in the buffer.
SwitchDone ==
    LET n == ParseInt(SelectBuffer).val
    IN  /\ mode' = "NORMAL"
        /\ series_input_str' = <<>> /\ case_input_str' = <<>>
        /\ candidate_center' = None /\ ~is_locked'
        /\ meta' # NoMeta
        /\ meta' = series_list'[current_series_idx' + 1].series_uid
        /\ IF mode = "SERIES_SELECT"
           THEN /\ current_series_idx' = n - 1
                /\ UNCHANGED <<current_case_idx, series_list>>
           ELSE /\ current_case_idx' = n - 1
                /\ series_list' = SeriesOf(cases_list[n])

C9_EscapeReturns ==
    /\ [](mode \in SelectModes => ENABLED KeyEscape)
    /\ [][KeyEscape
            => /\ mode' = "NORMAL"
               /\ series_input_str' = <<>> /\ case_input_str' = <<>>
               /\ UNCHANGED <<cases_list, current_case_idx, series_list,
                              current_series_idx, meta, series_cache, cache_order,
                              center_voxel, center_mm, rois, rois_by_patient,
                              lesion_counter, sidecar, candidate_center, is_locked>>
         ]_vars

\* C9 witness: back in NORMAL after a cancelled selection, with the candidate
\* that was locked before the selection still locked.
C9_Witness ==
    /\ mode = "NORMAL" /\ last_message = "cancelled"
    /\ series_input_str = <<>> /\ case_input_str = <<>>
    /\ is_locked /\ candidate_center # None

\* A step in which a series or case switch met a decode that failed: the step
\* a failing decode produces and a succeeding one does not.
FailedSwitch ==
    \/ KeySeriesShortcut({FALSE}) /\ ~KeySeriesShortcut(Succeeds)
    \/ KeySelectEnter({FALSE}) /\ ~KeySelectEnter(Succeeds)
    \/ KeyCase({FALSE}) /\ ~KeyCase(Succeeds)

\* The case a series belongs to.
CaseOfSeries(uid) ==
    CHOOSE c \in {"A", "B"} : \E n \in 1..Len(SeriesOf(c)) : SeriesOf(c)[n].series_uid = uid

\* C10: after a step whose decode failed the active case and series index
\* identify the loaded volume, the cache and its recency order are as before
\* and the ROI list shown is that of the case whose volume is loaded.
C10_FailedDecodeRestores ==
    [][FailedSwitch /\ meta # NoMeta
        => /\ meta' = series_list'[current_series_idx' + 1].series_uid
           /\ CaseOfSeries(meta') = cases_list'[current_case_idx' + 1]
           /\ series_cache' = series_cache /\ cache_order' = cache_order
           /\ rois' = IF HasKey(rois_by_patient', CaseOfSeries(meta'))
                      THEN rois_by_patient'[CaseOfSeries(meta')] ELSE <<>>
      ]_vars

\* C10 witness: the failed decode of a case switch is on the HUD: case B is the
\* active case and what is loaded is still the volume of case A's first series.
C10_Witness ==
    /\ last_message = "load_error"
    /\ cases_list[current_case_idx + 1] = "B" /\ meta = "uA1"
    /\ series_cache = [k \in {<<"A", 0>>} |-> "uA1"]

\* ------------------------------------------------------------ the series cache
\* A session on case C (seven series, capacity six): series shortcuts whose
\* decode succeeds or raises, and case keys, which reload the first series.
NextCache == KeySeriesAny(Outcomes) \/ KeyCase(Succeeds)
InitCache == StartsAs(ConstructedAt(RootMany, TRUE))
SpecCache == InitCache /\ [][NextCache]_vars

\* The reference cache: the recency list of a strict LRU cache of capacity cap
\* after key q is requested and its volume obtained.
LruAfter(order, q, cap) ==
    IF \E n \in 1..Len(order) : order[n] = q
    THEN SelectSeq(order, LAMBDA k : k # q) \o <<q>>
    ELSE IF Len(order) >= cap THEN Tail(order) \o <<q>>
    ELSE order \o <<q>>
KeysOf(order) == {order[n] : n \in 1..Len(order)}
ActiveKey == <<cases_list[current_case_idx + 1], current_series_idx>>

\* The cache holds at most max_cache_size entries and its recency list orders
\* exactly the cached keys, each once.
CacheWellFormed ==
    /\ Cardinality(DOMAIN series_cache) <= max_cache_size
    /\ KeysOf(cache_order) = DOMAIN series_cache
    /\ Cardinality(KeysOf(cache_order)) = Len(cache_order)

\* C11: the cache is well formed at the start and after every step, each step
\* being one request for the volume of the active (case, series); a request
\* that hits moves its key to the most recent end and changes no entry; a
\* request that misses and decodes leaves the recency list and the entries of
\* the reference LRU cache, so that beyond capacity exactly the least recently
\* requested key is gone; a request whose decode raises leaves the cache alone.
C11_StrictLru ==
    /\ CacheWellFormed
    /\ [][/\ CacheWellFormed'
          /\ IF ActiveKey' \in DOMAIN series_cache \/ ActiveKey' \in DOMAIN series_cache'
               THEN /\ cache_order' = LruAfter(cache_order, ActiveKey', max_cache_size)
                    /\ DOMAIN series_cache' =
                           KeysOf(LruAfter(cache_order, ActiveKey', max_cache_size))
                    /\ \A k \in DOMAIN series_cache' \cap DOMAIN series_cache :
                           series_cache'[k] = series_cache[k]
                    /\ meta' = series_cache'[ActiveKey']
               ELSE UNCHANGED <<series_cache, cache_order>>
         ]_vars

\* C11 witness: the cache is full, the first series of case C has been evicted
\* and the key requested after it, the second series, is not the oldest entry
\* any more: it was requested again before the eviction.
C11_Witness ==
    /\ Len(cache_order) = max_cache_size
    /\ <<"C", 0>> \notin DOMAIN series_cache
    /\ <<"C", 1>> \in DOMAIN series_cache
    /\ cache_order[1] # <<"C", 1>>
    /\ cache_order[max_cache_size] # <<"C", 1>>

\* ------------------------------------------------------------- data-root changes
\* A session in which every decode and write succeeds: series and case switches,
\* clicks and confirms, and the 'o' key, whose dialog is cancelled or returns the
\* first root, the second root or a folder without DICOM data.
DialogRoots == {Cancelled, RootOne, RootTwo, NoDicom}
NextRoot ==
    \/ KeySeriesShortcut(Succeeds)
    \/ KeyCase(Succeeds)
    \/ KeyOpenRoot(DialogRoots, Succeeds)
    \/ Click(ClickEvents)
    \/ KeyConfirm(Succeeds, MaxNavRois)
InitRoot == InitWith({FALSE}, Succeeds)
SpecRoot == InitRoot /\ [][NextRoot]_vars

\* C12: whenever a volume is loaded, it is the volume of the series listed at
\* the active index for the active case: its series UID is the UID of
\* series_list[current_series_idx].
C12_VolumeOfActiveSeries ==
    (meta # NoMeta /\ current_series_idx < Len(series_list))
        => meta = series_list[current_series_idx + 1].series_uid

\* C12 witness: the second root is open, its case A lists the one series uX1,
\* and the volume on screen is the cached first series of the first root's
\* case A.
C12_Witness ==
    /\ input_root = RootTwo
    /\ series_list = SeriesIn(RootTwo, "A") /\ current_series_idx = 0
    /\ meta = "uA1"
    /\ last_message = "info"

\* ---------------------------------------------------------- ROI re-validation
\* C13: a series or case switch that binds a volume leaves a status table with
\* one entry per ROI of the list now shown, each the status of that ROI on the
\* grid of the volume now loaded, and every ROI's center_voxel is mm_to_voxel of
\* its center_mm in that volume's geometry (stated contrapositively: a step that
\* leaves a stale table or a stale voxel center is not a switch).
C13_RevalidatedOnSwitch ==
    [][~(/\ Cardinality(DOMAIN roi_status') = Len(rois')
         /\ \A n \in 1..Len(rois') :
                /\ rois'[n].id \in DOMAIN roi_status'
                /\ roi_status'[rois'[n].id] = RoiStatus(rois'[n], Geometry(meta'))
                /\ rois'[n].center_voxel =
                       mm_to_voxel(rois'[n].center_mm[1], rois'[n].center_mm[2],
                                   rois'[n].center_mm[3], Geometry(meta')))
        => ~(KeySeriesShortcut(Succeeds) \/ KeyCase(Succeeds))
      ]_vars

\* C13 witness: the coronal series of case A is loaded with the two ROIs of the
\* earlier session, whose table has two entries that are not both the same and
\* whose second ROI has the voxel center of the coronal grid.
C13_Witness ==
    /\ meta = "uA2" /\ Len(rois) = 2
    /\ Cardinality(DOMAIN roi_status) = 2
    /\ roi_status[FormatId(1)] # roi_status[FormatId(2)]
    /\ rois[2].center_mm = PriorSidecar[2].center_xyz_mm
    /\ rois[2].center_voxel # <<0, 0, 1>>

\* ------------------------------------------------- the geometry functions alone
\* dicom_io.voxel_to_mm, dicom_io.mm_to_voxel and the per-ROI classification of
\* validate_rois_for_current_series, each called once on arguments drawn from
\* bounded sets: probe holds the call's arguments and, once made, its result.
MaxCoord == 2
ProbeCoords == (-1)..MaxCoord
ProbeTriples == {<<a, b, c>> : a \in ProbeCoords, b \in ProbeCoords, c \in ProbeCoords}

\* The orthonormal direction matrices with integer entries: the axis
\* permutations with reflections, row-major as SimpleITK's GetDirection().
AxisPermutations == {f \in [1..3 -> 1..3] : \A a \in 1..3, b \in 1..3 : f[a] = f[b] => a = b}
AxisSigns == [1..3 -> {-1, 1}]
SignedPermutation(f, sg) ==
    [n \in 1..9 |-> IF f[((n - 1) \div 3) + 1] = ((n - 1) % 3) + 1
                    THEN sg[((n - 1) \div 3) + 1] ELSE 0]
ProbeDirections == {SignedPermutation(f, sg) : f \in AxisPermutations, sg \in AxisSigns}

\* Spacing and origin in half millimetres: isotropic and not, at and off zero.
ProbeSpacings == {<<2, 2, 2>>, <<1, 2, 3>>}
ProbeOrigins == {<<0, 0, 0>>, <<1, -2, 3>>}
ProbeSize == <<2, 1, 2>>
ProbeGeometries ==
    {[origin |-> o, spacing |-> sp, direction |-> d, size |-> ProbeSize] :
        o \in ProbeOrigins, sp \in ProbeSpacings, d \in ProbeDirections}
\* The geometries validation is probed on: every direction, the non-isotropic
\* spacing, the origin at zero.
ValidationGeometries ==
    {m \in ProbeGeometries : m.origin = <<0, 0, 0>> /\ m.spacing = <<1, 2, 3>>}
ProbeRadii == {1, 3}

PendingCall(fn, m, at, radius) ==
    [fn |-> fn, meta |-> m, at |-> at, radius |-> radius, done |-> FALSE, out |-> None]

CallVoxelToMm ==
    /\ probe.fn = "voxel_to_mm" /\ ~probe.done
    /\ probe' = [probe EXCEPT !.done = TRUE,
                              !.out = voxel_to_mm(probe.at[1], probe.at[2], probe.at[3],
                                                  probe.meta)]
    /\ UNCHANGED session_vars

CallMmToVoxel ==
    /\ probe.fn = "mm_to_voxel" /\ ~probe.done
    /\ probe' = [probe EXCEPT !.done = TRUE,
                              !.out = mm_to_voxel(probe.at[1], probe.at[2], probe.at[3],
                                                  probe.meta)]
    /\ UNCHANGED session_vars

CallValidate ==
    /\ probe.fn = "validate" /\ ~probe.done
    /\ probe' = [probe EXCEPT !.done = TRUE,
                              !.out = RoiStatus([center_mm |-> probe.at,
                                                 radius_mm |-> probe.radius], probe.meta)]
    /\ UNCHANGED session_vars

\* voxel_to_mm and mm_to_voxel on its result, as _render_mpr_view does with the
\* center index.
CallRoundTrip ==
    /\ probe.fn = "round_trip" /\ ~probe.done
    /\ probe' = [probe EXCEPT !.done = TRUE,
                              !.out = LET mm == voxel_to_mm(probe.at[1], probe.at[2],
                                                            probe.at[3], probe.meta)
                                      IN  mm_to_voxel(mm[1], mm[2], mm[3], probe.meta)]
    /\ UNCHANGED session_vars

NextGeom == CallVoxelToMm \/ CallMmToVoxel \/ CallValidate \/ CallRoundTrip
InitGeom ==
    /\ SessionStartsAs(ConstructedAt(RootOne, TRUE))
    /\ \/ \E m \in ProbeGeometries, v \in ProbeTriples :
              probe = PendingCall("voxel_to_mm", m, v, 0)
       \/ \E m \in ProbeGeometries, p \in ProbeTriples :
              probe = PendingCall("mm_to_voxel", m, p, 0)
       \/ \E m \in ValidationGeometries, p \in ProbeTriples, r \in ProbeRadii :
              probe = PendingCall("validate", m, p, r)
       \/ \E m \in ProbeGeometries, v \in ProbeTriples :
              probe = PendingCall("round_trip", m, v, 0)
SpecGeom == InitGeom /\ [][NextGeom]_vars

\* The reference transforms, written from the matrix formulas: component a of
\* direction . w and of transpose(direction) . w.
Entry(m, row, col) == m.direction[3 * (row - 1) + col]
Scaled(m, v) == [a \in 1..3 |-> v[a] * m.spacing[a]]
Rotated(m, w) == [a \in 1..3 |-> Entry(m, a, 1) * w[1] + Entry(m, a, 2) * w[2] + Entry(m, a, 3) * w[3]]
RotatedBack(m, w) == [a \in 1..3 |-> Entry(m, 1, a) * w[1] + Entry(m, 2, a) * w[2] + Entry(m, 3, a) * w[3]]
\* transpose(direction) . (p - origin): the continuous voxel coordinate of p
\* times the spacing, axis by axis.
GridOffset(m, p) == RotatedBack(m, [a \in 1..3 |-> p[a] - m.origin[a]])

Called(fn) == probe.fn = fn /\ probe.done
IdentityDirection == <<1, 0, 0,  0, 1, 0,  0, 0, 1>>
\* A rotation by a third of a turn about the diagonal with the second axis
\* reflected: neither symmetric nor diagonal.
SkewDirection == <<0, 1, 0,  0, 0, -1,  1, 0, 0>>

\* The classification of the claim's reference: from the continuous voxel
\* coordinate c = GridOffset / spacing of the center, OUT unless 0 <= c < size
\* on every axis, OK when c - radius/spacing >= 0 and c + radius/spacing < size
\* on every axis, PARTIAL otherwise (each comparison multiplied by the spacing).
ContinuousStatus(m, p, radius) ==
    LET r == GridOffset(m, p)
        extent == [a \in 1..3 |-> m.size[a] * m.spacing[a]]
    IN  IF \E a \in 1..3 : r[a] < 0 \/ r[a] >= extent[a] THEN "OUT"
        ELSE IF \A a \in 1..3 : r[a] - radius >= 0 /\ r[a] + radius < extent[a] THEN "OK"
        ELSE "PARTIAL"

\* C14: the status validation gives an ROI is the status of the reference
\* classifier, which uses the continuous voxel coordinate of the ROI's center.
C14_AgreesWithReference ==
    Called("validate") => probe.out = ContinuousStatus(probe.meta, probe.at, probe.radius)

\* C14 witness: an ROI whose center is half a voxel before the grid on the
\* second axis is classified as touching the grid's border instead of OUT.
C14_Witness ==
    /\ Called("validate")
    /\ probe.meta.direction = IdentityDirection
    /\ probe.at = <<0, -1, 0>> /\ probe.radius = 1
    /\ ContinuousStatus(probe.meta, probe.at, probe.radius) = "OUT"
    /\ probe.out = "PARTIAL"

\* C15: mm_to_voxel returns the continuous voxel coordinate: on every axis the
\* result times the spacing is transpose(direction) . (mm - origin).
C15_Continuous ==
    Called("mm_to_voxel")
        => \A a \in 1..3 : probe.out[a] * probe.meta.spacing[a] = GridOffset(probe.meta, probe.at)[a]

\* C15 witness: on the 1 mm grid at the origin, the point half a millimetre
\* along the first axis, between the centers of voxels 0 and 1, gives index 0.
C15_Witness ==
    /\ Called("mm_to_voxel")
    /\ probe.meta.direction = IdentityDirection /\ probe.meta.spacing = <<2, 2, 2>>
    /\ probe.meta.origin = <<0, 0, 0>>
    /\ probe.at = <<1, 0, 0>>
    /\ probe.out = <<0, 0, 0>>

C17_Forward ==
    Called("voxel_to_mm")
        => /\ \A a \in 1..3 :
                  probe.out[a] = probe.meta.origin[a] + Rotated(probe.meta, Scaled(probe.meta, probe.at))[a]
           /\ probe.meta.direction = IdentityDirection
                  => probe.out = << probe.meta.origin[1] + probe.at[1] * probe.meta.spacing[1],
                                    probe.meta.origin[2] + probe.at[2] * probe.meta.spacing[2],
                                    probe.meta.origin[3] + probe.at[3] * probe.meta.spacing[3] >>

\* C17 witness: on the skew direction with spacing (0.5, 1, 1.5) mm and origin
\* (0.5, -1, 1.5) mm, index (1, 2, -1) is at origin + (4, 3, 1) half
\* millimetres: the second row of the direction takes the third axis, negated.
C17_Witness ==
    /\ Called("voxel_to_mm")
    /\ probe.meta.direction = SkewDirection /\ probe.meta.spacing = <<1, 2, 3>>
    /\ probe.meta.origin = <<1, -2, 3>>
    /\ probe.at = <<1, 2, -1>>
    /\ probe.out = <<1 + 4, -2 + 3, 3 + 1>>

\* ------------------------------------------------------- the risk category
\* infer_cli's prediction for one feature row and the category that
\* predict_for_export_folder derives from it. Probabilities and thresholds are
\* in tenths.
Probabilities == 0..10
DefaultThreshold == 5

\* dict.get(key, default)
GetOr(d, key, default) == IF key \in DOMAIN d THEN d[key] ELSE default

\* meta.json / meta.yaml of the model directory, as far as thresholds go.
Metas ==
    {EmptyMap, [thr_cv |-> 3], [threshold_default |-> 7],
     [thr_cv |-> 4, threshold_default |-> 7]}

\* thresholds.json: absent or an empty object (both falsy), tables with one,
\* two and three boundaries, a table with a label missing, and a table with no
\* boundary at all.
NoTable == EmptyMap
ThresholdTables ==
    {NoTable,
     [bins |-> <<5>>, labels |-> <<"Low", "High">>],
     [bins |-> <<3, 6>>, labels |-> <<"Low", "Mid", "High">>],
     [bins |-> <<2, 5, 8>>, labels |-> <<"Low", "Mid", "High", "Very high">>],
     [bins |-> <<3, 6>>, labels |-> <<"Low", "High">>],
     [bins |-> <<>>, labels |-> <<"Any">>]}

\* inference/infer_cli.py: the output the process writes for probability p.
infer_cli(process_meta, p) ==
    LET thr == GetOr(process_meta, "thr_cv",
                     GetOr(process_meta, "threshold_default", DefaultThreshold))
    IN  [prob_pos |-> p, thr_cv |-> thr, pred_label |-> IF p >= thr THEN 1 ELSE 0]

\* The category with the bridge's own metadata threshold put before the one the
\* process reported.
risk_category_own_threshold(pred, bridge_meta, thresholds_cfg) ==
    LET prob == GetOr(pred, "prob_pos", 0)
        thr  == GetOr(bridge_meta, "thr_cv",
                      GetOr(pred, "thr_cv",
                            GetOr(bridge_meta, "threshold_default", DefaultThreshold)))
        bins   == GetOr(thresholds_cfg, "bins", <<>>)
        labels == GetOr(thresholds_cfg, "labels", <<>>)
    IN  IF thresholds_cfg # NoTable /\ Len(labels) = Len(bins) + 1
        THEN IF bins = <<>> THEN [raised |-> "IndexError"]
             ELSE [risk_category |-> IF prob < bins[1] THEN labels[1]
                                     ELSE IF Len(bins) = 1 \/ prob < bins[2] THEN labels[2]
                                     ELSE labels[Len(labels)],
                   thresholds_source |-> "thresholds.json"]
        ELSE [risk_category |-> IF prob >= thr THEN "Positivo" ELSE "Negativo",
              thresholds_source |-> "thr_cv"]

\* predict_for_export_folder, from prob to pred["thresholds_source"]: bins[0]
\* of an empty list raises IndexError.
risk_category(pred, bridge_meta, thresholds_cfg) ==
    LET prob == GetOr(pred, "prob_pos", 0)
        thr  == GetOr(pred, "thr_cv",
                      GetOr(bridge_meta, "thr_cv",
                            GetOr(bridge_meta, "threshold_default", DefaultThreshold)))
        bins   == GetOr(thresholds_cfg, "bins", <<>>)
        labels == GetOr(thresholds_cfg, "labels", <<>>)
    IN  IF thresholds_cfg # NoTable /\ Len(labels) = Len(bins) + 1
        THEN IF bins = <<>> THEN [raised |-> "IndexError"]
             ELSE [risk_category |-> IF prob < bins[1] THEN labels[1]
                                     ELSE IF Len(bins) = 1 \/ prob < bins[2] THEN labels[2]
                                     ELSE labels[Len(labels)],
                   thresholds_source |-> "thresholds.json"]
        ELSE [risk_category |-> IF prob >= thr THEN "Positivo" ELSE "Negativo",
              thresholds_source |-> "thr_cv"]

\* One prediction: the process reads its metadata (meta.yaml before meta.json)
\* and writes pred; the bridge reads meta.json and thresholds.json and derives
\* the category.
PendingPrediction(process_meta, bridge_meta, thresholds_cfg, p) ==
    [fn |-> "predict", stage |-> "csv", process_meta |-> process_meta,
     meta |-> bridge_meta, thresholds_cfg |-> thresholds_cfg, prob |-> p,
     pred |-> None, out |-> None]

RunInferCli ==
    /\ probe.fn = "predict" /\ probe.stage = "csv"
    /\ probe' = [probe EXCEPT !.stage = "pred",
                              !.pred = infer_cli(probe.process_meta, probe.prob)]
    /\ UNCHANGED session_vars

Categorize ==
    /\ probe.fn = "predict" /\ probe.stage = "pred"
    /\ probe' = [probe EXCEPT !.stage = "done",
                              !.out = risk_category(probe.pred, probe.meta,
                                                    probe.thresholds_cfg)]
    /\ UNCHANGED session_vars

NextRisk == RunInferCli \/ Categorize
InitRisk ==
    /\ SessionStartsAs(ConstructedAt(RootOne, TRUE))
    /\ \E pm \in Metas, bm \in Metas, cfg \in ThresholdTables, p \in Probabilities :
           probe = PendingPrediction(pm, bm, cfg, p)
SpecRisk == InitRisk /\ [][NextRisk]_vars

Categorized == probe.fn = "predict" /\ probe.stage = "done"
\* A table in the claims' sense: k >= 1 boundaries and k + 1 labels.
HasTable ==
    /\ probe.thresholds_cfg # NoTable
    /\ Len(probe.thresholds_cfg.bins) >= 1
    /\ Len(probe.thresholds_cfg.labels) = Len(probe.thresholds_cfg.bins) + 1
\* No table, or one whose labels are not one more than its boundaries.
FallsBack ==
    \/ probe.thresholds_cfg = NoTable
    \/ Len(probe.thresholds_cfg.labels) # Len(probe.thresholds_cfg.bins) + 1

\* The label of the claim's binning: the first label below b_1, the last at or
\* above b_k, label j+1 for b_j <= prob < b_(j+1).
BinLabel(bins, labels, prob) ==
    IF prob < bins[1] THEN labels[1]
    ELSE IF prob >= bins[Len(bins)] THEN labels[Len(labels)]
    ELSE LET j == CHOOSE n \in 1..(Len(bins) - 1) : bins[n] <= prob /\ prob < bins[n + 1]
         IN  labels[j + 1]

\* C18: with a table of k >= 1 ascending boundaries and k+1 labels the category
\* is the label of the range the probability falls in.
C18_BinnedCategory ==
    (Categorized /\ HasTable)
        => probe.out.risk_category =
               BinLabel(probe.thresholds_cfg.bins, probe.thresholds_cfg.labels, probe.prob)

\* C18 witness: with boundaries 0.2, 0.5, 0.8 the probability 0.6, in the third
\* range, is given the fourth label.
C18_Witness ==
    /\ Categorized /\ HasTable
    /\ probe.thresholds_cfg.bins = <<2, 5, 8>> /\ probe.prob = 6
    /\ probe.out.risk_category = "Very high"

\* The threshold of the claim: the one the process reported.
ReportedThreshold == probe.pred.thr_cv

\* C19: without a usable table the category is Positivo exactly when
\* prob >= thr, thr being the threshold the process reported, and so exactly
\* when the process's pred_label is 1.
C19_BinaryCategory ==
    (Categorized /\ FallsBack)
        => /\ probe.out.risk_category \in {"Positivo", "Negativo"}
           /\ probe.out.risk_category = "Positivo" <=> probe.prob >= ReportedThreshold
           /\ probe.out.risk_category = "Positivo" <=> probe.pred.pred_label = 1

\* C19 witness: the process used its default 0.5 and labelled 0.5 positive; the
\* bridge, whose own metadata says 0.7 and whose table lacks a label, says
\* Positivo.
C19_Witness ==
    /\ Categorized
    /\ probe.thresholds_cfg = [bins |-> <<3, 6>>, labels |-> <<"Low", "High">>]
    /\ probe.process_meta = EmptyMap /\ probe.meta = [threshold_default |-> 7]
    /\ probe.prob = 5 /\ probe.pred.pred_label = 1
    /\ probe.out.risk_category = "Positivo"

\* ------------------------------------------------- export and the prediction call
\* What the work on one mask meets: whether the feature extraction and the
\* CSV write succeed, then the process's exit code, whether it wrote
\* --out_json, what it printed, the probability its model gave, whether the
\* file parses as JSON, and the keys the object in it lacks (none when
\* infer_cli as it is wrote it).
OutputGaps == {{}, {"prob_pos"}, {"thr_cv"}}
CleanRun ==
    [features_ok |-> TRUE, returncode |-> 0, wrote_json |-> TRUE,
     stdout |-> "captured stdout", stderr |-> "captured stderr", prob |-> 6,
     parses |-> TRUE, lacks |-> {}]
ProcessRuns ==
    {CleanRun,
     [CleanRun EXCEPT !.features_ok = FALSE],
     [CleanRun EXCEPT !.returncode = 1],
     [CleanRun EXCEPT !.returncode = 1, !.wrote_json = FALSE],
     [CleanRun EXCEPT !.wrote_json = FALSE],
     [CleanRun EXCEPT !.parses = FALSE],
     [CleanRun EXCEPT !.lacks = {"prob_pos"}],
     [CleanRun EXCEPT !.lacks = {"thr_cv"}]}
\* What the export itself meets: nothing, an export directory that cannot be
\* created, a rois.json or mask write that fails, a meta.json without a
\* feature list, a missing model file, a missing radiomics_params.yaml.
ExportSetups == {"ok", "no_directory", "write_fails", "no_features", "no_model", "no_params"}
\* json.loads(out_json.read_text()): the object the process wrote.
OutputFile(o) ==
    LET full == infer_cli(EmptyMap, o.prob)
    IN  [k \in (DOMAIN full) \ o.lacks |-> full[k]]

\* inference_bridge.run_infer_cli_from_csv: the error message as the list of
\* its parts, or the parsed output file.
run_infer_cli_from_csv(o) ==
    IF o.returncode # 0
    THEN [raised |-> "RuntimeError",
          message |-> <<"Falha ao rodar infer_cli.", "CMD", "STDOUT", o.stdout,
                        "STDERR", o.stderr>>]
    ELSE IF ~o.wrote_json
    THEN [raised |-> "RuntimeError",
          message |-> <<"infer_cli terminou mas nao gerou JSON", "out_json">>]
    ELSE IF ~o.parses THEN [raised |-> "JSONDecodeError", message |-> <<"Expecting value">>]
    ELSE [raised |-> "none", pred |-> OutputFile(o)]

\* The loop of predict_for_export_folder over the masks from the n-th on: the
\* first error leaves the loop; after the last mask case_summary.json is
\* written and the list returned.
RECURSIVE PredictLoop(_, _, _, _)
PredictLoop(masks, runs, n, preds) ==
    IF n > Len(masks)
    THEN [raised |-> "none", preds |-> preds,
          summary |-> [n_lesions |-> Len(preds), lesions |-> preds]]
    ELSE IF ~runs[n].features_ok
    THEN [raised |-> "Exception", message |-> <<"features">>]
    ELSE LET r == run_infer_cli_from_csv(runs[n])
         IN  IF r.raised # "none" THEN r
             ELSE PredictLoop(masks, runs, n + 1,
                      Append(preds,
                          Put(Put(Put(Put(r.pred, "lesion", masks[n]), "lesion_id", masks[n]),
                                  "risk_category",
                                  risk_category(r.pred, EmptyMap, NoTable).risk_category),
                              "risk_percent", GetOr(r.pred, "prob_pos", 0) * 100)))

\* mask_export.export_roi_masks: the files mask_<id>.nii.gz by ROI id, each with
\* the sphere it was rasterized from; a later ROI of the same id overwrites the
\* file of an earlier one.
export_roi_masks(roi_list) ==
    [lid \in {roi_list[n].id : n \in 1..Len(roi_list)} |->
        LET last == CHOOSE n \in 1..Len(roi_list) :
                        /\ roi_list[n].id = lid
                        /\ \A o \in (n + 1)..Len(roi_list) : roi_list[o].id # lid
        IN  [center_mm |-> roi_list[last].center_mm, radius_mm |-> roi_list[last].radius_mm]]

\* The order in which sorted() puts the names mask_<id>.nii.gz: the first
\* differing character decides, a digit is below a letter, and an id that ends
\* first continues with ".", which is below every digit.
CharRank(c) == IF IsDecimal(c) THEN DigitVal(c) + 1 ELSE 11
RECURSIVE NameBefore(_, _)
NameBefore(a, b) ==
    IF a = <<>> THEN b # <<>>
    ELSE IF b = <<>> THEN FALSE
    ELSE IF Head(a) # Head(b) THEN CharRank(Head(a)) < CharRank(Head(b))
    ELSE NameBefore(Tail(a), Tail(b))
RECURSIVE SortedNames(_)
SortedNames(names) ==
    IF names = {} THEN <<>>
    ELSE LET first == CHOOSE x \in names : \A y \in names : ~NameBefore(y, x)
         IN  <<first>> \o SortedNames(names \ {first})

\* The masks export_roi_masks wrote, one per ROI.
predict_for_export_folder(setup, masks, runs) ==
    IF setup = "no_features"
    THEN [raised |-> "ValueError", message |-> <<"meta.json nao tem lista 'features' valida.">>]
    ELSE IF setup = "no_model"
    THEN [raised |-> "FileNotFoundError", message |-> <<"model.joblib nao encontrado">>]
    ELSE IF setup = "no_params"
    THEN [raised |-> "FileNotFoundError", message |-> <<"radiomics_params.yaml nao existe">>]
    ELSE IF masks = <<>>
    THEN [raised |-> "FileNotFoundError", message |-> <<"Nenhuma mascara encontrada">>]
    ELSE PredictLoop(masks, runs, 1, <<>>)

\* export_all_to_pipeline with the result of its prediction call. The HUD
\* line is built after last_preds is assigned: p['prob_pos'], the default
\* argument of p.get('risk_percent', ...), raises KeyError when the key is
\* missing, which the handler reports as an inference error.
AfterPrediction(s, result) ==
    IF result.raised # "none" THEN [s EXCEPT !.last_message = "INFER ERROR"]
    ELSE IF result.preds # <<>>
    THEN [s EXCEPT !.last_preds = result.preds,
                   !.case_summary = result.summary,
                   !.last_message =
                       IF \E n \in 1..Len(result.preds) :
                              "prob_pos" \notin DOMAIN result.preds[n]
                       THEN "INFER ERROR" ELSE "PRED"]
    ELSE [s EXCEPT !.case_summary = result.summary,
                   !.last_message = "INFER ERROR: sem resultados"]

\* sorted(export_dir.glob("mask_*.nii.gz")) as the lesion labels of the files;
\* the directory is named by the second of the export and holds its masks only.
MasksOf(s) == SortedNames(DOMAIN export_roi_masks(s.rois))

\* os.makedirs(export_case_dir) comes before the handler's try: when it raises,
\* the exception leaves the handler and on_key's except (line 2141) prints it.
export_all_to_pipeline(s, setup, runs) ==
    IF s.rois = <<>>
    THEN update_plot([s EXCEPT !.last_message = "AVISO: Nenhuma ROI para exportar."])
    ELSE IF setup = "no_directory" THEN s
    ELSE IF setup = "write_fails" \/ s.meta = NoMeta
    THEN update_plot([s EXCEPT !.last_message = "ERRO no export"])
    ELSE update_plot(AfterPrediction(s, predict_for_export_folder(setup, MasksOf(s), runs)))

\* The prediction call an export step makes, if it makes one.
PredictionCall(s, setup, runs) ==
    IF s.rois = <<>> \/ setup \in {"no_directory", "write_fails"} \/ s.meta = NoMeta
    THEN NoProbe
    ELSE [fn |-> "predict_for_export_folder", setup |-> setup, runs |-> runs,
          case_name |-> CaseName(s),
          rois |-> s.rois, masks |-> export_roi_masks(s.rois),
          out |-> predict_for_export_folder(setup, MasksOf(s), runs)]

\* Key 'e' in NORMAL; what the masks meet matters only when the export's setup
\* is sound.
KeyExport(setups, processes) ==
    \E setup \in setups, runs \in [1..Len(rois) -> processes] :
        /\ mode = "NORMAL"
        /\ setup = "ok" \/ runs = [n \in 1..Len(rois) |-> CleanRun]
        /\ SessionBecomes(export_all_to_pipeline(Self, setup, runs))
        /\ probe' = PredictionCall(Self, setup, runs)

NextExport ==
    \/ Click(FarClick)
    \/ KeyConfirm(Succeeds, MaxNavRois)
    \/ KeyDelete(Succeeds)
    \/ KeyExport(ExportSetups, ProcessRuns)
InitExport == InitWith(BOOLEAN, Succeeds)
SpecExport == InitExport /\ [][NextExport]_vars

\* The call came to a mask for which the process failed: it exited with a
\* non-zero code, or with zero and without an output file.
ProcessFailed(call) ==
    /\ call.setup = "ok"
    /\ \E n \in 1..Len(call.runs) :
           /\ call.runs[n].features_ok
           /\ call.runs[n].returncode # 0 \/ ~call.runs[n].wrote_json
           /\ \A k \in 1..(n - 1) : call.runs[k] = CleanRun
Carries(message, text) == \E n \in 1..Len(message) : message[n] = text

\* C20: an export step whose inference process fails has its prediction call
\* raise an error that carries the captured stdout and stderr, returns no list,
\* writes no case summary and leaves the viewer's prediction list as it was.
C20_FailureSurfaced ==
    [][(probe'.fn = "predict_for_export_folder" /\ ProcessFailed(probe')
            /\ KeyExport(ExportSetups, ProcessRuns))
        => /\ probe'.out.raised # "none"
           /\ Carries(probe'.out.message, "captured stdout")
           /\ Carries(probe'.out.message, "captured stderr")
           /\ last_preds' = last_preds
           /\ case_summary' = case_summary
      ]_vars

\* C20 witness: after an export that gave predictions, an export whose process
\* exited with zero and wrote no file ends with the inference error on the HUD;
\* the earlier predictions and summary are still there and the error names
\* only the missing file.
C20_Witness ==
    /\ probe.fn = "predict_for_export_folder"
    /\ probe.runs[1].returncode = 0 /\ ~probe.runs[1].wrote_json
    /\ probe.out.raised = "RuntimeError"
    /\ ~Carries(probe.out.message, "captured stdout")
    /\ last_message = "infer_error"
    /\ last_preds # <<>> /\ case_summary # None

\* Every run of the call exited with zero and wrote its file, and the object in
\* some file lacks prob_pos or the threshold used.
PartialOutput(call) ==
    /\ call.setup = "ok"
    /\ \E n \in 1..Len(call.runs) : call.runs[n].lacks # {}
    /\ \A n \in 1..Len(call.runs) : call.runs[n] = [CleanRun EXCEPT !.lacks = call.runs[n].lacks]

\* C21: an export step in which the process wrote an object without prob_pos
\* or without thr_cv has its prediction call raise, so that nothing is computed
\* from the object, returned, persisted or shown as the viewer's predictions,
\* and the HUD reports the inference as failed.
C21_PartialOutputRejected ==
    [][(probe'.fn = "predict_for_export_folder" /\ PartialOutput(probe')
            /\ KeyExport(ExportSetups, ProcessRuns))
        => /\ probe'.out.raised # "none"
           /\ last_preds' = last_preds
           /\ case_summary' = case_summary
           /\ last_message' = "infer_error"
      ]_vars

\* C21 witness: the object of the only mask had no thr_cv; the call returned a
\* prediction with a risk category for it, which is now the viewer's
\* prediction list and in the case summary, and the HUD shows the prediction.
C21_Witness ==
    /\ probe.fn = "predict_for_export_folder"
    /\ Len(probe.runs) = 1 /\ probe.runs[1].lacks = {"thr_cv"}
    /\ probe.runs[1].returncode = 0 /\ probe.runs[1].wrote_json
    /\ probe.out.raised = "none"
    /\ Len(last_preds) = 1 /\ "thr_cv" \notin DOMAIN last_preds[1]
    /\ last_preds[1].risk_category = "Positivo"
    /\ case_summary # None /\ case_summary.lesions = last_preds
    /\ last_message = "prediction"

\* The export with this setup and these runs meets a failure: of the setup, or
\* of the work on a mask the loop comes to.
ExportFails(setup, runs) ==
    \/ setup # "ok"
    \/ \E n \in 1..Len(runs) : runs[n] # CleanRun
ExportStep(setup, runs) ==
    /\ mode = "NORMAL" /\ rois # <<>>
    /\ SessionBecomes(export_all_to_pipeline(Self, setup, runs))
    /\ probe' = PredictionCall(Self, setup, runs)
FailureShown == last_message' \in {"infer_error", "export_error"}

\* C22: an export step that meets a failure leaves the ROI list, the id
\* counter, the per-case ROI map, the sidecar and the mode as they were and
\* shows the failure on the HUD.
C22_FailureLeavesRois ==
    [][\A setup \in ExportSetups, runs \in [1..Len(rois) -> ProcessRuns] :
           (ExportFails(setup, runs) /\ ExportStep(setup, runs))
               => /\ UNCHANGED <<rois, lesion_counter, rois_by_patient, sidecar, mode>>
                  /\ FailureShown
      ]_vars

\* C22 witness: an export that gave predictions was followed by an export
\* whose metadata had no feature list: the HUD shows the inference error, the
\* two ROIs and the counter are as before.
C22_Witness ==
    /\ probe.fn = "predict_for_export_folder" /\ probe.setup = "no_features"
    /\ probe.out.raised = "ValueError"
    /\ last_message = "infer_error"
    /\ last_preds # <<>>
    /\ Len(rois) = 2 /\ lesion_counter = 3

\* A confirm step that appends, and a delete-last step that removes, in which
\* the write of rois_latest.json raises.
ConfirmWriteFails ==
    /\ mode = "NORMAL" /\ is_locked /\ candidate_center # None
    /\ SessionBecomes(on_key(Self, "enter", TRUE, FALSE))

DeleteWriteFails ==
    /\ mode = "NORMAL" /\ rois # <<>>
    /\ SessionBecomes(on_key(Self, "delete", TRUE, FALSE))

\* C23: when the autosave write fails during a confirm or a delete-last, the
\* in-memory ROI list keeps the change (one more ROI, one fewer) and the message
\* warns that the save failed: it is not the message the same step shows when
\* the write succeeds.
C23_SaveFailureWarned ==
    [][/\ ConfirmWriteFails
          => /\ Len(rois') = Len(rois) + 1
             /\ last_message' # MessageKind(on_key(Self, "enter", TRUE, TRUE).last_message)
       /\ DeleteWriteFails
          => /\ Len(rois') = Len(rois) - 1
             /\ last_message' # MessageKind(on_key(Self, "delete", TRUE, TRUE).last_message)
      ]_vars

\* C23 witness: a confirm whose write failed: the list holds the ROI, no sidecar
\* of the case exists, and the message is the one of a successful confirm.
C23_Witness ==
    /\ Len(rois) = 1 /\ lesion_counter = 2 /\ ~is_locked
    /\ ~HasKey(sidecar, CaseName(Self))
    /\ HasKey(rois_by_patient, CaseName(Self))
    /\ last_message = MessageKind("ROI confirmada! (autosave OK)")

\* ------------------------------------------------------------ workspace layouts
\* Lines 88-168 of __init__: the fields before the discovery at line 218.
Blank(root) ==
    [Fresh(FALSE, FALSE) EXCEPT !.cases_list = <<>>,
                                !.current_case_idx = -1,
                                !.input_root = root]

\* Lines 218-224: discovery on the root given at start, then the first load.
Startup(root, decode_ok) ==
    LET found == discover_workspace(Blank(root))
    IN  IF found.is_samples_mode
        THEN load_case(found, 0, decode_ok).s
        ELSE load_current_series(discover_series(found), decode_ok)

\* The folders a session starts on, and the ones the folder dialog returns.
StartRoots == {RootOne, CaseDirA, NoDicom, RootMixed, RootNested, RootFresh}
WorkspaceRoots == StartRoots \cup {Cancelled}

\* Sessions on every layout: the 'o' key, case switches, clicks and confirms,
\* with every decode and write succeeding.
NextWorkspace ==
    \/ KeyOpenRoot(WorkspaceRoots, Succeeds)
    \/ KeyCase(Succeeds)
    \/ Click(FarClick)
    \/ KeyConfirm(Succeeds, MaxNavRois)
InitWorkspace == \E root \in StartRoots, decode_ok \in Succeeds : StartsAs(Startup(root, decode_ok))
SpecWorkspace == InitWorkspace /\ [][NextWorkspace]_vars

\* C24: discovery applies the layout rules in priority order: a root that itself
\* holds a decodable series is a single case, named after the root, even when it
\* also has a SAMPLES subdirectory or child directories with series; the session
\* is multi-case only when the root itself holds no decodable series.
C24_SingleCaseFirst ==
    /\ IsSingleCase(input_root)
          => ~is_samples_mode /\ cases_list = <<BaseName(input_root)>>
    /\ is_samples_mode => ~IsSingleCase(input_root)

\* C24 witness: the root holds a series of its own and a child directory A with
\* series, and the session is multi-case with the child as its only case.
C24_Witness ==
    /\ input_root = RootMixed
    /\ is_samples_mode /\ cases_list = <<"A">> /\ current_case_idx = 0
    /\ series_list = SeriesOf("A")

\* The 'o' key whose dialog returns the folder without DICOM data.
InvalidRootSelected ==
    /\ mode = "NORMAL"
    /\ SessionBecomes(open_data_root(Self, NoDicom, TRUE))

\* C25: when discovery finds no valid layout under the chosen root, at startup
\* and after a folder selection, the message reports the failure, the case list
\* is empty, the mode is NORMAL (so the 'o' key works again), and no case,
\* series or volume of the rejected root is active.
C25_InvalidRootReported ==
    /\ input_root = NoDicom => last_message = "workspace_error"
    /\ [](input_root = NoDicom
            => cases_list = <<>> /\ series_list = <<>> /\ meta = NoMeta /\ mode = "NORMAL")
    /\ [][InvalidRootSelected
            => /\ last_message' = "workspace_error"
               /\ cases_list' = <<>>
               /\ mode' = "NORMAL"
               /\ series_list' \in {<<>>, series_list} /\ meta' \in {NoMeta, meta}
         ]_vars

\* C25 witness: the invalid folder was selected in a session on the first root:
\* the message reports it and the session still lists the cases A and B.
C25_Witness ==
    /\ input_root = RootOne /\ last_message = "workspace_error"
    /\ cases_list = <<"A", "B">> /\ mode = "NORMAL" /\ meta # NoMeta

\* ------------------------------------------------------------------ construction
\* The attributes __init__ has assigned when it calls discover_workspace at line
\* 81 (lines 71-75), and the ones that call reads before assigning them:
\* discover_patients compares self.current_case_idx at line 304 once it has
\* found a valid case; __init__ assigns that attribute at line 91.
AssignedAtEarlyDiscovery == {"samples_root", "input_root", "dicom_root", "series_hint"}
ReadByDiscovery(root) ==
    IF CasesIn(root) # <<>> THEN {"samples_root", "current_case_idx"} ELSE {}

\* The object whose construction raised is never returned: no handler runs on it.
Unset == "unset"
Unconstructed(root) == [Blank(root) EXCEPT !.mode = Unset]

\* ViewerApp(data_root = root). saved: config_local.json holds a samples_root, so
\* that line 80 skips the early discovery. A read of an attribute that is not
\* assigned yet raises AttributeError; otherwise the early discovery leaves only
\* what lines 88-168 overwrite and the second discovery finds again.
__init__(root, saved, decode_ok) ==
    IF ~saved /\ ~(ReadByDiscovery(root) \subseteq AssignedAtEarlyDiscovery)
    THEN [raised |-> "AttributeError", s |-> Unconstructed(root)]
    ELSE [raised |-> "none", s |-> Startup(root, decode_ok)]

\* Construction with and without a saved configuration, then the actions of a
\* session on the constructed object; probe keeps the constructor call.
ConstructorCall(root, saved, decode_ok) ==
    [fn |-> "__init__", root |-> root, saved |-> saved,
     raised |-> __init__(root, saved, decode_ok).raised]
InitStartup ==
    \E root \in StartRoots, saved \in BOOLEAN, decode_ok \in Succeeds :
        /\ SessionStartsAs(__init__(root, saved, decode_ok).s)
        /\ probe = ConstructorCall(root, saved, decode_ok)
NextStartup ==
    \/ probe.raised = "none" /\ KeyOpenRoot(WorkspaceRoots, Succeeds)
    \/ probe.raised = "none" /\ KeyCase(Succeeds)
    \/ probe.raised = "none" /\ Click(FarClick)
    \/ probe.raised = "none" /\ KeyConfirm(Succeeds, MaxNavRois)
SpecStartup == InitStartup /\ [][NextStartup]_vars

\* The state the constructor leaves: the message is still the "Pronto" of the
\* first load, nothing was clicked or confirmed.
FreshlyStarted ==
    /\ probe.raised = "none" /\ input_root = probe.root /\ last_message = "ready"
    /\ rois = <<>> /\ candidate_center = None

\* C26: a session started without saved configuration on a root with one case
\* holding a single axial T2 series completes construction, with a case list of
\* length one and that case active, the axial T2 quick reference at that series,
\* that series active and loaded, and the center voxel at size // 2 on each axis.
C26_FreshStart ==
    (probe.root = RootFresh /\ ~probe.saved)
        => /\ probe.raised = "none"
           /\ FreshlyStarted
                => /\ cases_list = <<"F">> /\ current_case_idx = 0
                   /\ series_list = FreshSeries
                   /\ T2Quick(series_list, "axial") = 0
                   /\ current_series_idx = 0
                   /\ meta = "uF1"
                   /\ \A a \in 1..3 : center_voxel[a] = Geometry(meta).size[a] \div 2

\* C26 witness: the constructor called on that root without saved configuration
\* raised AttributeError: no session exists.
C26_Witness ==
    /\ probe.fn = "__init__" /\ probe.root = RootFresh /\ ~probe.saved
    /\ probe.raised = "AttributeError"
    /\ mode = Unset /\ cases_list = <<>>

\* -------------------------------------------------------------- series listings
\* discover_series on the listings list_case_series can return: up to MaxSeries
\* series, each of an orientation, T2 or not, with 1..MaxSlices slices.
MaxSeries == 3
MaxSlices == 2
ListingUids == <<"s1", "s2", "s3", "s4", "s5">>
SeriesShapes ==
    [orientation : Planes, is_t2 : BOOLEAN, num_slices : 1..MaxSlices]
Listing(shapes) ==
    [n \in 1..Len(shapes) |->
        [series_uid |-> ListingUids[n], orientation |-> shapes[n].orientation,
         is_t2 |-> shapes[n].is_t2, num_slices |-> shapes[n].num_slices]]
Listings == {Listing(shapes) : shapes \in UNION {[1..len -> SeriesShapes] : len \in 0..MaxSeries}}

\* t2_quick and current_series_idx as load_case leaves them before the call: the
\* quick references of the case shown before, and index 0. -1 stands for None.
StaleQuick == [o \in Planes |-> IF o = "axial" THEN 1 ELSE -1]

\* Lines 484-520 on the listing lst: nothing is assigned when it is empty.
SeriesDiscovery(lst) ==
    IF lst = <<>>
    THEN [t2_quick |-> StaleQuick, current_series_idx |-> 0]
    ELSE [t2_quick |-> [o \in Planes |-> T2Quick(lst, o)],
          current_series_idx |-> DefaultSeries(lst)]

CallDiscoverSeries ==
    /\ probe.fn = "discover_series" /\ ~probe.done
    /\ probe' = [probe EXCEPT !.done = TRUE, !.out = SeriesDiscovery(probe.series_list)]
    /\ UNCHANGED session_vars

NextSeries == CallDiscoverSeries
InitSeries ==
    /\ SessionStartsAs(ConstructedAt(RootOne, TRUE))
    /\ \E lst \in Listings :
           probe = [fn |-> "discover_series", series_list |-> lst, done |-> FALSE, out |-> None]
SpecSeries == InitSeries /\ [][NextSeries]_vars

\* The T2 series of an orientation in a listing (1-based positions).
T2Of(lst, o) == {n \in 1..Len(lst) : lst[n].is_t2 /\ lst[n].orientation = o}
MostSlices(lst, n, among) == \A c \in among : lst[c].num_slices <= lst[n].num_slices

SliceRoots == {RootOne, CaseDirA, RootFresh}
NextSlice ==
    \/ KeySlice
    \/ KeyView
    \/ Click(ClickEvents)
    \/ KeySeriesShortcut(Outcomes)
    \/ KeyCase(Outcomes)
InitSlice == \E root \in SliceRoots, decode_ok \in Outcomes : StartsAs(Startup(root, decode_ok))
SpecSlice == InitSlice /\ [][NextSlice]_vars

\* The axis a panel steps along, as a position of center_voxel = (i, j, k).
DepthAxis(plane) == IF plane = "axial" THEN 3 ELSE IF plane = "sagittal" THEN 1 ELSE 2

CenterInGrid ==
    meta # NoMeta
        => /\ \A a \in 1..3 : 0 <= center_voxel[a] /\ center_voxel[a] < Geometry(meta).size[a]
           /\ current_slice = center_voxel[3]

\* An up (delta = 1) or down (delta = -1) key handled with a volume loaded.
SliceStep(key) ==
    /\ mode = "NORMAL" /\ meta # NoMeta
    /\ SessionBecomes(on_key(Self, key, TRUE, TRUE))

SteppedBy(delta) ==
    LET a    == DepthAxis(active_view)
        size == Geometry(meta).size[a]
        to   == center_voxel[a] + delta
    IN  /\ \A b \in (1..3) \ {a} : center_voxel'[b] = center_voxel[b]
        /\ center_voxel'[a] = IF to < 0 THEN 0 ELSE IF to >= size THEN size - 1 ELSE to

\* C28: whenever a volume is loaded the center voxel is inside the grid and the
\* current slice is its k component; a slice step on the active panel changes
\* only that panel's depth-axis component, by exactly the step when the result
\* is in range and to the nearest bound otherwise.
C28_CenterInGrid ==
    /\ CenterInGrid
    /\ [][/\ CenterInGrid'
          /\ SliceStep("up") => SteppedBy(1)
          /\ SliceStep("down") => SteppedBy(-1)
         ]_vars

\* C28 witness: on the 2 x 3 x 4 grid the coronal panel is active and the center
\* has been stepped to the last row and to the first slice.
C28_Witness ==
    /\ meta = "uF1" /\ active_view = "coronal"
    /\ center_voxel = <<1, 2, 0>> /\ current_slice = 0

\* ------------------------------------------------------------------- provenance
\* The model directory: the text of meta.json, the text of meta.yaml (Absent when
\* the file is missing or blank) and the model files in it. A JSON text is a
\* YAML text as well, so both files can hold the same text.
Absent == "absent"
MetaTexts == {"meta text A", "meta text B"}
ModelFiles == {"model.joblib", "model_b.joblib"}

\* json.loads / yaml.safe_load of a metadata text: text A names no model_file,
\* text B names model_b.joblib.
ParsedMeta(text) ==
    IF text = "meta text B" THEN [model_file |-> "model_b.joblib"] ELSE EmptyMap

ModelDirs ==
    [meta_json : MetaTexts, meta_yaml : MetaTexts \cup {Absent},
     models : (SUBSET ModelFiles) \ {{}}]

\* hashlib.sha256 over the bytes of a file: a function of its content.
_sha256_of_file(content) == <<"sha256", content>>
\* The bytes of the files in a model directory, and of radiomics_params.yaml.
ModelBytes(file) == <<"bytes of", file>>
ParamsBytes == "bytes of radiomics_params.yaml"

\* inference_bridge._load_meta: meta.json.
_load_meta(dir) == [file |-> "meta.json", text |-> dir.meta_json]

\* infer_cli.load_meta: meta.yaml when it exists and is not blank, else meta.json.
load_meta(dir) ==
    IF dir.meta_yaml # Absent
    THEN [file |-> "meta.yaml", text |-> dir.meta_yaml]
    ELSE [file |-> "meta.json", text |-> dir.meta_json]

\* meta.get("model_file", "model.joblib")
ModelFileOf(text) == GetOr(ParsedMeta(text), "model_file", "model.joblib")

\* Lines 189-204 and 265-269 of the bridge with lines 213-228 of the process, for
\* one mask whose probability is p: the model_version written into the
\* prediction, next to the files the process read; a missing model file raises
\* on either side.
PredictWithProvenance(dir, p) ==
    LET bridge == _load_meta(dir)
        cli    == load_meta(dir)
    IN  IF ModelFileOf(bridge.text) \notin dir.models
           \/ ModelFileOf(cli.text) \notin dir.models
        THEN [raised |-> "error"]
        ELSE [raised |-> "none",
              prob_pos |-> p,
              model_version |->
                  [model_joblib_sha256 |-> _sha256_of_file(ModelBytes(ModelFileOf(bridge.text))),
                   meta_json_sha256 |-> _sha256_of_file(bridge.text),
                   radiomics_params_sha256 |-> _sha256_of_file(ParamsBytes)],
              process_read |-> cli.text,
              process_loaded |-> ModelBytes(ModelFileOf(cli.text)),
              extracted_with |-> ParamsBytes]

CallPredictWithProvenance ==
    /\ probe.fn = "provenance" /\ ~probe.done
    /\ probe' = [probe EXCEPT !.done = TRUE, !.out = PredictWithProvenance(probe.dir, probe.prob)]
    /\ UNCHANGED session_vars

NextProvenance == CallPredictWithProvenance
InitProvenance ==
    /\ SessionStartsAs(ConstructedAt(RootOne, TRUE))
    /\ \E dir \in ModelDirs, p \in Probabilities :
           probe = [fn |-> "provenance", dir |-> dir, prob |-> p,
                    done |-> FALSE, out |-> None]
SpecProvenance == InitProvenance /\ [][NextProvenance]_vars

Persisted == Called("provenance") /\ probe.out.raised = "none"

\* C29: every persisted prediction carries the content hashes of the model
\* file, the metadata file and the extraction-parameter file, and they are the
\* hashes of the artifacts that produced it: of the metadata the process read,
\* of the model file it loaded, and of the parameters used for extraction.
C29_HashesIdentifyArtifacts ==
    Persisted
        => /\ probe.out.model_version.meta_json_sha256 = _sha256_of_file(probe.out.process_read)
           /\ probe.out.model_version.model_joblib_sha256
                  = _sha256_of_file(probe.out.process_loaded)
           /\ probe.out.model_version.radiomics_params_sha256
                  = _sha256_of_file(probe.out.extracted_with)

\* C29 witness: the directory holds a meta.yaml with another text than meta.json
\* and both model files; the prediction carries the hashes of meta.json and of
\* model.joblib, and the process read meta.yaml and loaded model_b.joblib.
C29_Witness ==
    /\ Persisted
    /\ probe.dir.meta_json = "meta text A" /\ probe.dir.meta_yaml = "meta text B"
    /\ probe.out.model_version.meta_json_sha256 = _sha256_of_file("meta text A")
    /\ probe.out.process_read = "meta text B"
    /\ probe.out.process_loaded = ModelBytes("model_b.joblib")

\* ----------------------------------------------------------------- feature file
\* The feature names a model can declare, with the constant column the bridge
\* fills in. Values are kept as their text: two floats, a value float() rejects,
\* and Python's None; "nan" is np.nan. The constant column's name is written
\* here without the tilde of the source's "nao".
ConstantFeature == "tumor_vs_nao_tumor"
FeatureNames == {"original_firstorder_Median", "original_shape_Sphericity", ConstantFeature}
Floats == {"0.0", "7.5"}
FeatureValues == Floats \cup {"not a number", "None"}
NaN == "nan"

\* The declared lists: meta["features"], without repetition.
FeatureLists ==
    {cols \in UNION {[1..len -> FeatureNames] : len \in 1..Cardinality(FeatureNames)} :
        \A a \in 1..Len(cols), b \in 1..Len(cols) : cols[a] = cols[b] => a = b}

\* What extract_radiomics_features returns: a dict over some of the names.
ExtractedFeatures == UNION {[names -> FeatureValues] : names \in SUBSET FeatureNames}

\* Lines 112-124: the DataFrame written as CSV, its columns in the order of the
\* row dict.
_write_one_row_csv(cols, values) ==
    LET cell(c) == IF ~HasKey(values, c) THEN NaN                \* values.get(c, np.nan)
                   ELSE IF values[c] = "None" THEN NaN
                   ELSE IF values[c] \in Floats THEN values[c]   \* float(v)
                   ELSE NaN                                      \* except: np.nan
        row == [c \in {cols[n] : n \in 1..Len(cols)} |->
                    IF c = ConstantFeature THEN "1.0" ELSE cell(c)]
    IN  [columns |-> cols, rows |-> <<row>>]

\* infer_cli lines 213-224: the declared features of the metadata the process
\* reads, and the ones it misses among the columns of the file.
MissingColumns(features_order, df) ==
    {features_order[n] : n \in 1..Len(features_order)} \ {df.columns[n] : n \in 1..Len(df.columns)}

\* The feature list of a model directory without meta.yaml.
NoYaml == <<>>

\* One mask: the bridge writes the file from the list in meta.json; the process
\* checks it against the list of the metadata load_meta returns, the one in
\* meta.yaml when that file exists.
WriteAndCheck(call) ==
    LET df == _write_one_row_csv(call.json_features, call.values)
        features_order == IF call.yaml_features = NoYaml THEN call.json_features
                          ELSE call.yaml_features
    IN  [file |-> df, missing |-> MissingColumns(features_order, df)]

CallWriteFeatures ==
    /\ probe.fn = "_write_one_row_csv" /\ ~probe.done
    /\ probe' = [probe EXCEPT !.done = TRUE, !.out = WriteAndCheck(probe)]
    /\ UNCHANGED session_vars

NextFeatures == CallWriteFeatures
InitFeatures ==
    /\ SessionStartsAs(ConstructedAt(RootOne, TRUE))
    /\ \E cols \in FeatureLists, values \in ExtractedFeatures,
          other \in FeatureLists \cup {NoYaml} :
           probe = [fn |-> "_write_one_row_csv", json_features |-> cols, values |-> values,
                    yaml_features |-> other, done |-> FALSE, out |-> None]
SpecFeatures == InitFeatures /\ [][NextFeatures]_vars

\* A declared feature that was not extracted, or whose value is not a number.
NotUsable(values, c) == ~HasKey(values, c) \/ values[c] \notin Floats

\* C30: the feature file has one row and the declared features as its columns,
\* in declared order; a declared feature that was not extracted or is not
\* numeric is written as NaN, never as zero; the file passes the process's check
\* that every declared feature column is present.
C30_FeatureFile ==
    Called("_write_one_row_csv")
        => /\ Len(probe.out.file.rows) = 1
           /\ probe.out.file.columns = probe.json_features
           /\ DOMAIN probe.out.file.rows[1] = {probe.json_features[n] : n \in 1..Len(probe.json_features)}
           /\ \A c \in DOMAIN probe.out.file.rows[1] :
                  NotUsable(probe.values, c) => probe.out.file.rows[1][c] = NaN
           /\ probe.out.missing = {}

\* C30 witness: the constant column is declared and was not extracted, and the
\* file holds 1.0 for it; no meta.yaml exists and the column check passes.
C30_Witness ==
    /\ Called("_write_one_row_csv")
    /\ probe.yaml_features = NoYaml
    /\ probe.json_features = <<"original_firstorder_Median", ConstantFeature>>
    /\ DOMAIN probe.values = {"original_firstorder_Median"}
    /\ probe.values["original_firstorder_Median"] = "not a number"
    /\ probe.out.file.rows[1]["original_firstorder_Median"] = NaN
    /\ probe.out.file.rows[1][ConstantFeature] = "1.0"
    /\ probe.out.missing = {}

\* ------------------------------------------------ the files of one export
\* The work on some mask of the call fails: the feature extraction raises, the
\* process exits with a non-zero code or leaves no file, or the file does not
\* hold an object with prob_pos and the threshold used.
InferenceFails(call) ==
    /\ call.setup = "ok"
    /\ \E n \in 1..Len(call.runs) : call.runs[n] # CleanRun
\* The sphere of an ROI, as the mask file records it.
SphereOf(roi) == [center_mm |-> roi.center_mm, radius_mm |-> roi.radius_mm]

\* C31: the prediction call of an export over n ROIs finds exactly n masks,
\* the mask named by an ROI's id rasterized from that ROI; when it returns
\* there are n predictions and one summary with n_lesions = n, and each ROI's
\* id is the lesion id of exactly one prediction; when the inference of some
\* mask fails, the call raises and no summary is written.
C31_ExportOneToOne ==
    probe.fn = "predict_for_export_folder" =>
        /\ Cardinality(DOMAIN probe.masks) = Len(probe.rois)
        /\ \A k \in 1..Len(probe.rois) :
               probe.masks[probe.rois[k].id] = SphereOf(probe.rois[k])
        /\ probe.out.raised = "none" =>
               /\ Len(probe.out.preds) = Len(probe.rois)
               /\ probe.out.summary.n_lesions = Len(probe.rois)
               /\ probe.out.summary.lesions = probe.out.preds
               /\ \A k \in 1..Len(probe.rois) :
                      Cardinality({j \in 1..Len(probe.out.preds) :
                                      probe.out.preds[j].lesion_id = probe.rois[k].id}) = 1
        /\ InferenceFails(probe) => probe.out.raised # "none"

\* C31 witness: an export of two ROIs in which the object written for the
\* second mask has no prob_pos returned two predictions and wrote a summary of
\* two lesions.
C31_Witness ==
    /\ probe.fn = "predict_for_export_folder"
    /\ Len(probe.rois) = 2
    /\ probe.runs[1] = CleanRun /\ probe.runs[2].lacks = {"prob_pos"}
    /\ probe.out.raised = "none"
    /\ probe.out.summary.n_lesions = 2
    /\ probe.out.preds[2].lesion_id = probe.rois[2].id
    /\ "prob_pos" \notin DOMAIN probe.out.preds[2]

\* ------------------------------------------------ every input in every mode
\* on_key with the two keys whose handlers meet the file system: 'o' (line
\* 1978, before the SELECT branches) and 'e' (in the NORMAL chain).
key_press_event(s, key, decode_ok, write_ok, new_root, setup, runs) ==
    IF key # "q" /\ s.mode = "NORMAL" /\ key = "o" THEN open_data_root(s, new_root, decode_ok)
    ELSE IF key # "q" /\ s.mode = "NORMAL" /\ key = "e"
    THEN export_all_to_pipeline(s, setup, runs)
    ELSE on_key(s, key, decode_ok, write_ok)

\* self.last_key, which on_key assigns first; the mouse handlers record nothing.
Delivered(key) == [fn |-> "on_key", last_key |-> key]

MaxZoom == 1
AllModes == {"NORMAL", "SERIES_SELECT", "CASE_SELECT"}
SelectKeys == {"2", "enter", "escape", "backspace"}
OpenKeys == {"c", "ctrl+g"}
OtherKeys == {"up", "ctrl+down", "delete", "x", "+", "e", "o", "z", "a"}

\* A key press in one of modes; decodes and writes succeed, the folder dialog
\* returns RootTwo and the export meets no failure.
PressKey(keys, modes) ==
    \E key \in keys :
        /\ mode \in modes
        /\ (IsDigit(key) /\ mode = "SERIES_SELECT") => Len(series_input_str) < MaxBuf
        /\ (IsDigit(key) /\ mode = "CASE_SELECT") => Len(case_input_str) < MaxBuf
        /\ (key = "enter" /\ mode = "NORMAL" /\ is_locked) => TotalRois(Self) < MaxNavRois
        /\ SessionBecomes(key_press_event(Self, key, TRUE, TRUE, RootTwo, "ok",
                                          [n \in 1..Len(rois) |-> CleanRun]))
        /\ probe' = Delivered(key)

PressButton(events) ==
    \E e \in events :
        /\ SessionBecomes(on_click(Self, e[1], e[2], e[3]))
        /\ probe' = probe

Scroll ==
    \E button \in {"up", "down"} :
        /\ (mode = "NORMAL" /\ button = "up") => view_state["axial"].scale < MaxZoom
        /\ (mode = "NORMAL" /\ button = "down") => view_state["axial"].scale > 0
        /\ SessionBecomes(on_scroll(Self, "axial", button))
        /\ probe' = probe

MoveMouse ==
    \E plane \in {"coronal"} :
        /\ SessionBecomes(on_mouse_move(Self, plane))
        /\ probe' = probe

\* Inputs arriving while a SELECT state is open. In NORMAL mode the session is
\* brought there by clicks, scrolling, pointer motion, confirm, series
\* shortcuts and the two opening keys; once a SELECT state is open every key
\* arrives.
NextModal ==
    \/ PressKey(SelectKeys, AllModes)
    \/ PressKey(OpenKeys, AllModes)
    \/ PressKey(OtherKeys, SelectModes)
    \/ PressButton(FarClick)
    \/ Scroll
    \/ MoveMouse
InitModal == InitWith({FALSE}, Succeeds)
SpecModal == InitModal /\ [][NextModal]_vars

\* The step delivers, in a SELECT state, an input other than a digit,
\* Backspace, Escape, Enter or quit: such a key is the last key after the
\* step, or the last key is as before and the step is one of the mouse.
OtherInputInSelect ==
    /\ mode \in SelectModes
    /\ \/ probe'.fn = "on_key" /\ probe'.last_key \in OtherKeys \cup OpenKeys
       \/ probe' = probe /\ (PressButton(FarClick) \/ Scroll \/ MoveMouse)

\* C32: in SERIES_SELECT and CASE_SELECT a mouse click, a scroll step, a
\* pointer motion and every key other than a digit, Backspace, Escape, Enter
\* and quit leave the mode, the active case and series, the volume, the center,
\* the ROI list with its counter and sidecar, the candidate and lock, the
\* radius, the view state and panel, the predictions and both text buffers
\* unchanged.
C32_SelectIgnoresOthers ==
    [][OtherInputInSelect
        => UNCHANGED <<mode, cases_list, current_case_idx, series_list, current_series_idx,
                       meta, center_voxel, center_mm, current_slice, active_view, view_state,
                       candidate_center, is_locked, radius_mm,
                       rois, rois_by_patient, lesion_counter, sidecar, last_preds,
                       series_input_str, case_input_str>>
      ]_vars

\* C32 witness: delete-last was the last key, pressed in SERIES_SELECT with a
\* digit typed, while there is a confirmed ROI to remove, a candidate locked
\* and the axial view zoomed in.
C32_Witness ==
    /\ mode = "SERIES_SELECT" /\ series_input_str = <<"2">>
    /\ probe = Delivered("delete")
    /\ Len(rois) = 1 /\ is_locked /\ candidate_center # None
    /\ view_state["axial"].scale = 1

\* ------------------------------------------------- the candidate and its lock
\* Locking, clearing and confirming a candidate among series and case
\* switches, by shortcut and through the SELECT states, whose decode may fail,
\* the first one included.
NextLock ==
    \/ Click(ClickEvents)
    \/ KeyClear
    \/ KeyConfirm(Succeeds, MaxNavRois)
    \/ KeySeriesShortcut(Outcomes)
    \/ KeyCase(Outcomes)
    \/ KeyOpenSelect
    \/ KeyBufferDigit
    \/ KeySelectEnter(Outcomes)
    \/ KeyEscape
InitLock == InitWith({FALSE}, Outcomes)
SpecLock == InitLock /\ [][NextLock]_vars

LockIffCandidate == is_locked <=> candidate_center # None
Unlocked == ~is_locked /\ candidate_center = None
\* A step that switches the series or the case and whose volume is in the cache
\* or decodes.
CompletedSwitch ==
    \/ KeySelectEnter(Succeeds) /\ BufferValid
    \/ KeyCase(Succeeds)
    \/ \E key \in DigitKeys :
           /\ mode = "NORMAL"
           /\ IsDecimal(key) /\ key # "0" /\ DigitVal(key) - 1 < Len(series_list)
           /\ Becomes(on_key(Self, key, TRUE, TRUE))

\* C33: the lock flag is set exactly when a candidate center is stored, in the
\* first state and after every step; a click in NORMAL with a volume loaded
\* sets both; clear, a confirm of a locked candidate and every completed
\* series or case switch reset both.
C33_LockIffCandidate ==
    /\ LockIffCandidate
    /\ [][/\ LockIffCandidate'
          /\ (mode = "NORMAL" /\ meta # NoMeta /\ Click(ClickEvents))
                => (is_locked' /\ candidate_center' # None)
          /\ (KeyClear \/ (is_locked /\ KeyConfirm(Succeeds, MaxNavRois)) \/ CompletedSwitch)
                => Unlocked'
         ]_vars

\* C33 witness: a candidate was locked in case B, on the volume a completed
\* case switch bound, after an ROI had been confirmed from an earlier lock.
C33_Witness ==
    /\ is_locked /\ candidate_center # None
    /\ mode = "NORMAL" /\ current_case_idx = 1 /\ meta = "uB1"
    /\ HasKey(rois_by_patient, "A") /\ Len(rois_by_patient["A"]) = 1

\* ------------------------------------------- the center across volume loads
\* A series shortcut of NORMAL whose target exists and whose volume is in the
\* cache or decodes.
SeriesShortcutLoads ==
    \E key \in DigitKeys :
        /\ mode = "NORMAL"
        /\ IsDecimal(key) /\ key # "0" /\ DigitVal(key) - 1 < Len(series_list)
        /\ Becomes(on_key(Self, key, TRUE, TRUE))
\* A case shortcut that leaves the active case for another one whose volume is
\* in the cache or decodes.
CaseSwitchLoads == KeyCase(Succeeds) /\ current_case_idx' # current_case_idx

MappedInto(c_mm, m) ==
    LET v == mm_to_voxel(c_mm[1], c_mm[2], c_mm[3], m)
    IN  <<Clamp(v[1], m.size[1]), Clamp(v[2], m.size[2]), Clamp(v[3], m.size[3])>>
MidpointOf(m) == <<m.size[1] \div 2, m.size[2] \div 2, m.size[3] \div 2>>

\* C34: after a successful load of a series switch within a case the center
\* voxel is the previous physical center mapped into the new geometry, rounded
\* and clamped; with no previous physical center, or when the load belongs to a
\* switch to a different case, it is the midpoint of the volume.
C34_CenterAcrossLoads ==
    [][/\ (SeriesShortcutLoads /\ meta' # NoMeta)
            => center_voxel' = IF center_mm # None
                               THEN MappedInto(center_mm, Geometry(meta'))
                               ELSE MidpointOf(Geometry(meta'))
       /\ (CaseSwitchLoads /\ meta' # NoMeta)
            => center_voxel' = MidpointOf(Geometry(meta'))
      ]_vars

\* The placement the code makes on every load, a case switch included.
C34_CenterMappedOnEveryLoad ==
    [][((SeriesShortcutLoads \/ CaseSwitchLoads) /\ meta' # NoMeta)
            => center_voxel' = IF center_mm # None
                               THEN MappedInto(center_mm, Geometry(meta'))
                               ELSE MidpointOf(Geometry(meta'))
      ]_vars

\* C34 witness: case B is active on its volume with the center away from the
\* midpoint of that volume, and no click was made in this case.
C34_Witness ==
    /\ current_case_idx = 1 /\ meta = "uB1" /\ mode = "NORMAL"
    /\ center_voxel # MidpointOf(Geometry("uB1"))
    /\ active_view = "axial"

\* ------------------------------------------------------------ the mode machine
BuffersFitMode ==
    /\ mode \in AllModes
    /\ mode = "NORMAL" => (series_input_str = <<>> /\ case_input_str = <<>>)
    /\ mode = "SERIES_SELECT" => case_input_str = <<>>
    /\ mode = "CASE_SELECT" => series_input_str = <<>>
ModeStepAllowed ==
    \/ mode' = mode
    \/ mode = "NORMAL" /\ mode' \in SelectModes
    \/ mode \in SelectModes /\ mode' = "NORMAL"

\* C35: the mode is always NORMAL, SERIES_SELECT or CASE_SELECT; a SELECT state
\* is entered only from NORMAL, SERIES_SELECT by ctrl+g and CASE_SELECT by c,
\* and left only to NORMAL; both buffers are empty in NORMAL and the buffer of
\* the inactive SELECT state is empty.
C35_ModeMachine ==
    /\ BuffersFitMode
    /\ [][/\ BuffersFitMode'
          /\ ModeStepAllowed
          /\ (mode' # mode /\ mode' = "SERIES_SELECT") => probe' = Delivered("ctrl+g")
          /\ (mode' # mode /\ mode' = "CASE_SELECT") => probe' = Delivered("c")
         ]_vars

\* The same without the key that was pressed, for sessions that do not record it.
C35_ModeMachineAnyKey == BuffersFitMode /\ [][BuffersFitMode' /\ ModeStepAllowed]_vars

\* C35 witness: ctrl+g arrived in CASE_SELECT with a digit typed and an ROI
\* confirmed, and the mode is still CASE_SELECT.
C35_Witness ==
    /\ mode = "CASE_SELECT" /\ case_input_str = <<"2">> /\ series_input_str = <<>>
    /\ probe = Delivered("ctrl+g")
    /\ Len(rois) = 1

\* ---------------------------------------------------- the candidate's voxel
InGrid(v, m) == \A a \in 1..3 : 0 <= v[a] /\ v[a] < m.size[a]
CandidateInGrid == is_locked => (meta # NoMeta /\ InGrid(candidate_center, Geometry(meta)))
\* A click that locks a candidate.
LockingClick == mode = "NORMAL" /\ meta # NoMeta /\ Click(ClickEvents)
\* An Enter that appends an ROI.
ConfirmFromClick == is_locked /\ KeyConfirm(Succeeds, MaxNavRois) /\ Len(rois') = Len(rois) + 1

\* C36: whenever a candidate is locked its voxel triple is inside the grid of
\* the loaded volume on every axis; the click that locks it makes it equal to
\* the center voxel the click sets; so every ROI confirmed from a click has its
\* center inside the volume it was placed on.
C36_CandidateInGrid ==
    /\ CandidateInGrid
    /\ [][/\ CandidateInGrid'
          /\ LockingClick => candidate_center' = center_voxel'
          /\ ConfirmFromClick => InGrid(rois'[Len(rois')].center_voxel, Geometry(meta))
         ]_vars

\* C36 witness: an ROI was confirmed from a click beyond the last column of the
\* volume, and its voxel center is outside the grid.
C36_Witness ==
    /\ meta = "uA1" /\ Len(rois) = 1
    /\ ~InGrid(rois[1].center_voxel, Geometry(meta))
    /\ InGrid(center_voxel, Geometry(meta))
    /\ ~is_locked

\* ------------------------------------------- the status table and the ROI list
IdsOf(roi_list) == {roi_list[n].id : n \in 1..Len(roi_list)}
StatusForActiveRois == meta # NoMeta => DOMAIN roi_status = IdsOf(rois)
ConfirmAppends == KeyConfirm(Succeeds, MaxNavRois) /\ Len(rois') = Len(rois) + 1
DeleteRemoves == KeyDelete(Succeeds) /\ Len(rois') = Len(rois) - 1

\* C37: in every state with a volume loaded the status table has an entry for
\* exactly the ids of the active ROI list; right after a confirm the new ROI
\* has a status, and right after delete-last the removed id has none.
C37_StatusForActiveRois ==
    /\ StatusForActiveRois
    /\ [][/\ StatusForActiveRois'
          /\ ConfirmAppends => rois'[Len(rois')].id \in DOMAIN roi_status'
          /\ DeleteRemoves => rois[Len(rois)].id \notin DOMAIN roi_status'
         ]_vars

\* The table is that of the active list after every completed series switch.
C37_StatusAfterSwitch ==
    [][(SeriesShortcutLoads /\ meta' # NoMeta) => DOMAIN roi_status' = IdsOf(rois')]_vars

\* C37 witness: an ROI was confirmed on the loaded volume and the status table
\* has no entry for it.
C37_Witness ==
    /\ meta = "uA1" /\ Len(rois) = 1 /\ rois[1].id = FormatId(1)
    /\ roi_status = EmptyMap
    /\ ~is_locked

\* ------------------------------------------------- predictions drawn on ROIs
\* Lines 2367-2371: the map export_all_to_pipeline rebuilds from the list it has
\* just stored in last_preds, by p.get("lesion"), a later entry replacing an
\* earlier one; no other line assigns either attribute after construction.
PredMapOf(preds) ==
    [lid \in {preds[n]["lesion"] : n \in {m \in 1..Len(preds) : "lesion" \in DOMAIN preds[m]}} |->
        preds[CHOOSE n \in 1..Len(preds) :
                  /\ "lesion" \in DOMAIN preds[n] /\ preds[n]["lesion"] = lid
                  /\ \A m \in (n + 1)..Len(preds) :
                         ~("lesion" \in DOMAIN preds[m] /\ preds[m]["lesion"] = lid)]]
roi_pred_map == PredMapOf(last_preds)

\* Exports that succeed, among confirms, deletions and case switches, in
\* sessions that may start from an earlier session's sidecar.
NextShown ==
    \/ Click(FarClick)
    \/ KeyConfirm(Succeeds, MaxRois)
    \/ KeyDelete(Succeeds)
    \/ KeyCase(Succeeds)
    \/ KeyExport({"ok"}, {CleanRun})
InitShown == InitWith(BOOLEAN, Succeeds)
SpecShown == InitShown /\ [][NextShown]_vars

\* The latest prediction call is the one whose result last_preds holds.
ProducingCall ==
    /\ probe.fn = "predict_for_export_folder"
    /\ probe.out.raised = "none"
    /\ last_preds # <<>> /\ probe.out.preds = last_preds

\* C38: a prediction the map holds under the id of an ROI of the active list
\* was computed from that ROI: by an export of the active case, from the mask
\* of that ROI's sphere; and a step that changes the active case leaves no entry
\* in the map.
C38_PredictionOfShownRoi ==
    /\ ProducingCall
          => \A n \in 1..Len(rois) :
                 rois[n].id \in DOMAIN roi_pred_map
                     => /\ probe.case_name = CaseName(Self)
                        /\ rois[n].id \in DOMAIN probe.masks
                        /\ probe.masks[rois[n].id] = SphereOf(rois[n])
    /\ [][current_case_idx' # current_case_idx => DOMAIN PredMapOf(last_preds') = {}]_vars

\* C38 witness: case B is active with an ROI L1 confirmed in it, and the map
\* holds under L1 the prediction of an export of case A.
C38_Witness ==
    /\ ProducingCall /\ probe.case_name = "A"
    /\ current_case_idx = 1 /\ Len(rois) = 1 /\ rois[1].id = FormatId(1)
    /\ FormatId(1) \in DOMAIN roi_pred_map

\* ---------------------------------------- persisted ROIs and the first autosave
\* The ROIs persisted for the active case are the in-memory list.
PersistedBound ==
    (cases_list # <<>> /\ HasKey(sidecar, CaseName(Self)))
        => SidecarAsDurable(sidecar[CaseName(Self)]) = DurableList(rois)
IsPrefix(a, b) == Len(a) <= Len(b) /\ SubSeq(b, 1, Len(a)) = a
\* The records of the active case's sidecar, none when there is no sidecar.
SidecarNow == IF HasKey(sidecar, CaseName(Self)) THEN sidecar[CaseName(Self)] ELSE <<>>
SidecarNext == IF HasKey(sidecar', CaseName(Self)) THEN sidecar'[CaseName(Self)] ELSE <<>>

\* C39: before and after every step the ROIs persisted for the active case are
\* the in-memory list, so a confirm keeps every record the sidecar held and a
\* delete-last removes from it the last record only.
C39_PersistedBeforeAutosave ==
    [][/\ PersistedBound /\ PersistedBound'
       /\ (KeyConfirm(Succeeds, MaxRois) /\ is_locked) => IsPrefix(SidecarNow, SidecarNext)
       /\ KeyDelete(Succeeds) => IsPrefix(SidecarNext, SidecarNow) /\ Len(SidecarNext) >= Len(SidecarNow) - 1
      ]_vars

\* The same for the sessions of a multi-case workspace.
C39_MultiCasePersisted ==
    [][is_samples_mode =>
          /\ PersistedBound /\ PersistedBound'
          /\ (KeyConfirm(Succeeds, MaxRois) /\ is_locked) => IsPrefix(SidecarNow, SidecarNext)
          /\ KeyDelete(Succeeds) => IsPrefix(SidecarNext, SidecarNow) /\ Len(SidecarNext) >= Len(SidecarNow) - 1
      ]_vars

\* C39 witness: a single-case session that started over the sidecar of an
\* earlier session has written a sidecar holding only the ROI it confirmed.
C39_Witness ==
    /\ ~is_samples_mode /\ CaseName(Self) = "A"
    /\ HasKey(sidecar, "A") /\ Len(sidecar["A"]) = 1
    /\ sidecar["A"][1].center_xyz_mm # PriorSidecar[1].center_xyz_mm
    /\ Len(rois) = 1 /\ rois[1].id = FormatId(1)

\* ------------------------------------------------- discovery over directories
\* discover_workspace above names a workspace by the folder that was selected,
\* for folders on which a later run finds the same container again. Here the
\* paths it computes are followed: a path is the tuple of its parts,
\* on a disk with a PROSTATEx-style folder PX holding SAMPLES/A and SAMPLES/B, a
\* folder cases holding the case directories A and B directly, and an empty
\* folder.
FsRoot == <<"/">>
DataDir == <<"/", "d">>
\* sorted(os.listdir(p)), directories only.
ListDir(p) ==
    IF p = FsRoot THEN <<"d">>
    ELSE IF p = DataDir THEN <<"PX", "cases", "empty">>
    ELSE IF p = <<"/", "d", "PX">> THEN <<"SAMPLES">>
    ELSE IF p = <<"/", "d", "PX", "SAMPLES">> THEN <<"A", "B">>
    ELSE IF p = <<"/", "d", "cases">> THEN <<"A", "B">>
    ELSE <<>>
Join(p, name) == Append(p, name)
Dirname(p) == IF Len(p) <= 1 THEN FsRoot ELSE SubSeq(p, 1, Len(p) - 1)
Basename(p) == p[Len(p)]
RECURSIVE Exists(_)
Exists(p) ==
    \/ p = FsRoot
    \/ /\ Len(p) > 1
       /\ Exists(Dirname(p))
       /\ \E n \in 1..Len(ListDir(Dirname(p))) : ListDir(Dirname(p))[n] = Basename(p)
IsCaseDir(p) == Len(p) > 3 /\ Basename(p) \in {"A", "B"} /\ Exists(p)
\* Whether dicom_io.list_case_series(p) is non-empty: it is for the directory of
\* a case; for a folder above case directories it is when the listing descends
\* into subfolders (deep), which the viewer's code does not determine.
RECURSIVE HasSeries(_, _)
HasSeries(p, deep) ==
    \/ IsCaseDir(p)
    \/ /\ deep
       /\ \E n \in 1..Len(ListDir(p)) : HasSeries(Join(p, ListDir(p)[n]), deep)

\* Lines 283-312 on the workspace fields w.
discover_patients(w, deep) ==
    IF w.samples_root = None \/ ~Exists(w.samples_root) THEN w
    ELSE LET names == ListDir(w.samples_root)
             valid == SelectSeq(names, LAMBDA d : HasSeries(Join(w.samples_root, d), deep))
         IN  IF valid # <<>>
             THEN [w EXCEPT !.cases_list = valid,
                            !.current_case_idx =
                                IF w.current_case_idx < 0 \/ w.current_case_idx >= Len(valid)
                                THEN 0 ELSE w.current_case_idx]
             ELSE [w EXCEPT !.last_message = "Nenhum caso com DICOM encontrado na pasta selecionada.",
                            !.cases_list = <<>>,
                            !.is_samples_mode = FALSE]

\* Lines 226-281 on the workspace fields w.
discover_workspace_paths(w, deep) ==
    IF w.input_root = None \/ ~Exists(w.input_root)
    THEN [w EXCEPT !.cases_list = <<>>,
                   !.last_message = "Nenhum data_root definido. Pressione O para selecionar."]
    ELSE IF Exists(Join(w.input_root, "SAMPLES"))
    THEN discover_patients([w EXCEPT !.samples_root = Join(w.input_root, "SAMPLES"),
                                     !.is_samples_mode = TRUE], deep)
    ELSE IF \E n \in 1..Len(ListDir(w.input_root)) :
                HasSeries(Join(w.input_root, ListDir(w.input_root)[n]), deep)
    THEN discover_patients([w EXCEPT !.samples_root = w.input_root,
                                     !.input_root = Dirname(w.input_root),
                                     !.is_samples_mode = TRUE], deep)
    ELSE IF HasSeries(w.input_root, deep)
    THEN [w EXCEPT !.is_samples_mode = FALSE,
                   !.cases_list = <<Basename(w.input_root)>>,
                   !.current_case_idx = 0]
    ELSE [w EXCEPT !.last_message = "Pasta invalida. Selecione PROSTATEx (com SAMPLES) ou a propria SAMPLES.",
                   !.cases_list = <<>>,
                   !.is_samples_mode = FALSE]

\* Lines 2313-2328 when the selected folder new_root yields no case: the
\* previous input root is restored and discovery runs again.
open_data_root_paths(w, new_root, deep) ==
    LET found == discover_workspace_paths([w EXCEPT !.input_root = new_root,
                                                    !.samples_root = None], deep)
    IN  IF found.cases_list # <<>> THEN found
        ELSE discover_workspace_paths([found EXCEPT !.input_root = w.input_root], deep)

\* The folders a session is pointed at, and the workspace fields before the
\* first run: the case index of a running session, or -1, and a container a
\* saved configuration may name.
DiscoveryRoots ==
    {DataDir, <<"/", "d", "PX">>, <<"/", "d", "PX", "SAMPLES">>, <<"/", "d", "PX", "SAMPLES", "A">>,
     <<"/", "d", "cases">>, <<"/", "d", "cases", "B">>, <<"/", "d", "empty">>, <<"/", "d", "gone">>}
EmptyDir == <<"/", "d", "empty">>
WorkspaceBefore(root, idx, saved) ==
    [input_root |-> root, samples_root |-> saved, is_samples_mode |-> FALSE,
     cases_list |-> <<>>, current_case_idx |-> idx, last_message |-> "Pronto"]
PendingDiscovery ==
    {[fn |-> "discover_workspace", done |-> FALSE, deep |-> deep,
      before |-> WorkspaceBefore(root, idx, saved)] :
        root \in DiscoveryRoots, deep \in BOOLEAN, idx \in {-1, 0, 1},
        saved \in {None, <<"/", "d", "PX", "SAMPLES">>}}

\* One run, the run after it, and a folder selection that fails after one run.
CallDiscoverWorkspace ==
    /\ probe.fn = "discover_workspace" /\ ~probe.done
    /\ LET once == discover_workspace_paths(probe.before, probe.deep)
       IN  probe' = [fn |-> "discover_workspace", done |-> TRUE, deep |-> probe.deep,
                     before |-> probe.before,
                     once |-> once,
                     twice |-> discover_workspace_paths(once, probe.deep),
                     reverted |-> open_data_root_paths(once, EmptyDir, probe.deep)]
    /\ UNCHANGED session_vars
NextDiscovery == CallDiscoverWorkspace
InitDiscovery ==
    /\ SessionStartsAs(Fresh(TRUE, FALSE))
    /\ probe \in PendingDiscovery
SpecDiscovery == InitDiscovery /\ [][NextDiscovery]_vars

SameOutcome(a, b) ==
    /\ a.is_samples_mode = b.is_samples_mode
    /\ a.cases_list = b.cases_list
    /\ a.is_samples_mode => a.samples_root = b.samples_root

\* C40: the run of discovery that follows a run, with the input root the first
\* run left, yields the mode, the case list and the multi-case container of the
\* first run; so does the run a failed folder selection makes on the restored
\* input root.
C40_DiscoveryRepeats ==
    Called("discover_workspace")
        => /\ SameOutcome(probe.once, probe.twice)
           /\ SameOutcome(probe.once, probe.reverted)

\* The same for the runs that leave the input root where it was, or re-root it
\* to the parent of a folder named SAMPLES.
C40_RepeatsWithoutStrayParent ==
    (/\ Called("discover_workspace")
     /\ \/ probe.once.input_root = probe.before.input_root
        \/ Basename(probe.once.samples_root) = "SAMPLES")
        => /\ SameOutcome(probe.once, probe.twice)
           /\ SameOutcome(probe.once, probe.reverted)

\* C40 witness: a run on the folder that holds the case directories found the
\* cases A and B and re-rooted to the parent; the next run finds no case there.
C40_Witness ==
    /\ Called("discover_workspace") /\ ~probe.deep
    /\ probe.before.input_root = <<"/", "d", "cases">>
    /\ probe.once.cases_list = <<"A", "B">> /\ probe.once.input_root = DataDir
    /\ probe.twice.cases_list = <<>> /\ ~probe.twice.is_samples_mode
====
